---------------------------- MODULE Spec2Model ----------------------------
(***************************************************************************)
(* A model of the ClickFix pattern tooling:                                *)
(*   - scripts/yaml_parser.py   parse_yaml_pattern, the shared line parser *)
(*   - scripts/run_tests.py     the colour test runner (compile, evaluate, *)
(*                              summarise)                                 *)
(*   - scripts/test/run.py      the compact test runner (check_format,     *)
(*                              compile_patterns, run_tests, test_pattern) *)
(* Text is modelled by TLA+ strings, character by character (Len, SubSeq   *)
(* and \o on strings).  A file is the sequence of its lines.               *)
(***************************************************************************)
EXTENDS Integers, Sequences, FiniteSets, TLC

(***************************************************************************)
(* Bounds of the model.                                                    *)
(***************************************************************************)
\* the longest input file, in lines, that the parser is fed
MaxLines == 4
\* the most sub-patterns and examples, taken together, of a document that
\* the runners are given
MaxItems == 3

\* the most rule files main finds in the patterns directory
MaxFiles == 3

\* the most characters of a generated list item
MaxItemLen == 3

\* the most calls of parse_yaml_pattern in one process, and the most lines
\* of the files they read
MaxCalls == 3
MaxCallLines == 1

(***************************************************************************)
(* Python values.                                                          *)
(***************************************************************************)
\* current_section = None
None == "None"
\* current_pattern = None
NoPattern == <<>>

(***************************************************************************)
(* Python str methods, on TLA+ strings.                                    *)
(***************************************************************************)
Ch(s, i) == SubSeq(s, i, i)

\* the characters str.strip() removes
IsSpace(c) == c \in {" ", "\t", "\n", "\r"}

RECURSIVE LStrip(_)
LStrip(s) ==
    IF Len(s) > 0 /\ IsSpace(Ch(s, 1)) THEN LStrip(SubSeq(s, 2, Len(s))) ELSE s

RECURSIVE RStrip(_)
RStrip(s) ==
    IF Len(s) > 0 /\ IsSpace(Ch(s, Len(s)))
    THEN RStrip(SubSeq(s, 1, Len(s) - 1))
    ELSE s

\* s.strip()
Strip(s) == RStrip(LStrip(s))

\* s.startswith(p)
StartsWith(s, p) == Len(s) >= Len(p) /\ SubSeq(s, 1, Len(p)) = p

\* s.endswith(p)
EndsWith(s, p) ==
    Len(s) >= Len(p) /\ SubSeq(s, Len(s) - Len(p) + 1, Len(s)) = p

\* s[n:]
DropFirst(s, n) == SubSeq(s, n + 1, Len(s))

\* s[1:-1]
Inner(s) == SubSeq(s, 2, Len(s) - 1)

\* s[:-1]
DropLast(s) == SubSeq(s, 1, Len(s) - 1)

\* s[:n]
Prefix(s, n) == SubSeq(s, 1, IF Len(s) < n THEN Len(s) ELSE n)

\* p in s
Contains(s, p) ==
    \E i \in 1..(Len(s) - Len(p) + 1) : SubSeq(s, i, i + Len(p) - 1) = p

\* the index of the first occurrence of p in s (0 when there is none)
Find(s, p) ==
    IF Contains(s, p)
    THEN CHOOSE i \in 1..(Len(s) - Len(p) + 1) :
            /\ SubSeq(s, i, i + Len(p) - 1) = p
            /\ \A j \in 1..(i - 1) : SubSeq(s, j, j + Len(p) - 1) # p
    ELSE 0

\* s.partition(p): <<head, tail>> around the first p (the separator itself
\* is dropped by every caller)
Partition(s, p) ==
    LET i == Find(s, p) IN
    IF i = 0 THEN <<s, "">>
    ELSE <<SubSeq(s, 1, i - 1), SubSeq(s, i + Len(p), Len(s))>>

\* s.replace(old, new): left to right, non-overlapping
RECURSIVE Replace(_, _, _)
Replace(s, old, new) ==
    IF Len(s) = 0 THEN ""
    ELSE IF StartsWith(s, old)
         THEN new \o Replace(DropFirst(s, Len(old)), old, new)
         ELSE Ch(s, 1) \o Replace(DropFirst(s, 1), old, new)

\* sep.join(parts)
RECURSIVE Join(_, _)
Join(sep, parts) ==
    IF Len(parts) = 0 THEN ""
    ELSE IF Len(parts) = 1 THEN parts[1]
    ELSE parts[1] \o sep \o Join(sep, Tail(parts))


(***************************************************************************)
(* yaml_parser.py: parse_yaml_pattern.                                     *)
(* The loop state is a record st with the function's local variables; one  *)
(* loop iteration is ParseLine(st, line), the code after the loop is       *)
(* ParseEnd(st).                                                           *)
(***************************************************************************)
FieldNames ==
    {"name", "severity", "description", "pattern", "patterns",
     "malicious", "benign"}

\* the keys of pattern_data whose value is a list
ListFields == {"patterns", "malicious", "benign"}

\* the state before the first line (lines 12-27)
ParseInit ==
    [ pattern_data     |-> [ name |-> "", severity |-> "", description |-> "",
                             pattern |-> "", patterns |-> <<>>,
                             malicious |-> <<>>, benign |-> <<>> ],
      current_section  |-> None,
      multiline_value  |-> <<>>,
      current_pattern  |-> NoPattern,
      in_patterns_list |-> FALSE,
      in_test_list     |-> FALSE,
      raised           |-> FALSE ]

\* the value a pending pattern scalar is stored as (lines 39-43, 85-89,
\* 132-136)
PatternValue(mv) ==
    IF Len(mv) = 1 THEN mv[1] ELSE Strip(Join("\n", mv))

\* the value a pending description scalar is stored as (lines 45, 91, 138)
DescriptionValue(mv) == Strip(Join(" ", mv))

\* the flush before a section header or a top-level key (lines 37-46 and
\* 83-92)
Flush(st) ==
    IF st.multiline_value # <<>> /\ st.current_section # None
    THEN [ st EXCEPT
             !.pattern_data =
                 IF st.current_section = "pattern" /\ ~st.in_patterns_list
                 THEN [ @ EXCEPT !.pattern = PatternValue(st.multiline_value) ]
                 ELSE IF st.current_section = "description"
                 THEN [ @ EXCEPT
                          !.description = DescriptionValue(st.multiline_value) ]
                 ELSE @,
             !.multiline_value = <<>> ]
    ELSE st

\* the flush after the last line (lines 130-138)
FinalFlush(st) ==
    IF st.multiline_value # <<>> /\ st.current_section # None
    THEN [ st EXCEPT
             !.pattern_data =
                 IF st.current_section = "pattern"
                 THEN [ @ EXCEPT !.pattern = PatternValue(st.multiline_value) ]
                 ELSE IF st.current_section = "description"
                 THEN [ @ EXCEPT
                          !.description = DescriptionValue(st.multiline_value) ]
                 ELSE @ ]
    ELSE st

\* SectionHeader leaving in_patterns_list as it is
SectionHeader_KeepingPatternsFlag(st, stripped) ==
    [ Flush(st) EXCEPT
        !.current_section  = DropLast(stripped),
        !.in_test_list     = TRUE ]

\* a `malicious:` / `benign:` header (lines 36-50)
SectionHeader(st, stripped) ==
    [ Flush(st) EXCEPT
        !.current_section  = DropLast(stripped),
        !.in_test_list     = TRUE,
        !.in_patterns_list = FALSE ]

\* Unquote unescaping inside single quotes too
Unquote_UnescapeBoth(item) ==
    IF (StartsWith(item, "\"") /\ EndsWith(item, "\""))
       \/ (StartsWith(item, "'") /\ EndsWith(item, "'"))
    THEN Replace(Inner(item), "\\\"", "\"")
    ELSE item

\* the example a list item stands for (lines 58-62)
Unquote(item) ==
    IF StartsWith(item, "\"") /\ EndsWith(item, "\"")
    THEN Replace(Inner(item), "\\\"", "\"")
    ELSE IF StartsWith(item, "'") /\ EndsWith(item, "'")
    THEN Inner(item)
    ELSE item

\* pattern_data[key].append(item): KeyError for a key pattern_data lacks,
\* AttributeError for a key that holds a string
AppendTo(st, key, item) ==
    IF key \in DOMAIN st.pattern_data /\ key \in ListFields
    THEN [ st EXCEPT !.pattern_data[key] = Append(@, item) ]
    ELSE [ st EXCEPT !.raised = TRUE ]

\* IsTestItem without its test of current_section
IsTestItem_AnySection(st, stripped) ==
    StartsWith(stripped, "- ") /\ st.in_test_list

\* the guard of a list item of a test section (lines 53-57)
IsTestItem(st, stripped) ==
    /\ StartsWith(stripped, "- ")
    /\ st.in_test_list
    /\ st.current_section \in {"malicious", "benign"}

\* TestItem putting the item at the head of the list
TestItem_Prepending(st, stripped) ==
    [ st EXCEPT
        !.pattern_data[st.current_section] =
            << Unquote(Strip(DropFirst(stripped, 2))) >> \o @ ]

\* a list item of a test section (lines 58-64)
TestItem(st, stripped) ==
    AppendTo(st, st.current_section, Unquote(Strip(DropFirst(stripped, 2))))

\* PatternsItem opening a record without closing the one in progress
PatternsItem_Replacing(st, stripped) ==
    LET item == Strip(DropFirst(stripped, 2)) IN
    IF StartsWith(item, "name:")
    THEN [ st EXCEPT
             !.current_pattern =
                 [ name        |-> Strip(DropFirst(item, 5)),
                   pattern     |-> "",
                   description |-> "" ],
             !.in_patterns_list = TRUE,
             !.in_test_list     = FALSE ]
    ELSE st

\* a list item of the patterns section (lines 67-79)
PatternsItem(st, stripped) ==
    LET item == Strip(DropFirst(stripped, 2)) IN
    IF StartsWith(item, "name:")
    THEN [ st EXCEPT
             !.pattern_data =
                 IF st.current_pattern # NoPattern
                 THEN [ @ EXCEPT !.patterns = Append(@, st.current_pattern) ]
                 ELSE @,
             !.current_pattern =
                 [ name        |-> Strip(DropFirst(item, 5)),
                   pattern     |-> "",
                   description |-> "" ],
             !.in_patterns_list = TRUE,
             !.in_test_list     = FALSE ]
    ELSE st

\* a top-level key/value line (lines 82-109)
KeyValue(st, line) ==
    LET f     == Flush(st)
        kv    == Partition(line, ":")
        key   == Strip(kv[1])
        value == Strip(kv[2])
    IN  IF key \in {"name", "severity"}
        THEN [ f EXCEPT
                 !.pattern_data[key] = value,
                 !.current_section   = None,
                 !.in_patterns_list  = FALSE,
                 !.in_test_list      = FALSE ]
        ELSE IF key \in {"description", "pattern"}
        THEN [ f EXCEPT
                 !.current_section = key,
                 !.multiline_value =
                     IF value # "" /\ value \notin {"|", ">"}
                     THEN <<value>> ELSE @ ]
        ELSE IF key = "patterns"
        THEN [ f EXCEPT !.current_section = key, !.in_patterns_list = TRUE ]
        ELSE f

\* an indented line inside the patterns list (lines 111-120)
NestedKeyValue(st, line) ==
    LET key_val == Strip(line)
        kv      == Partition(key_val, ":")
        key     == Strip(kv[1])
        value   == Strip(kv[2])
    IN  IF Contains(key_val, ":") /\ key = "pattern"
        THEN [ st EXCEPT !.current_pattern.pattern = value ]
        ELSE IF Contains(key_val, ":") /\ key = "description"
        THEN [ st EXCEPT !.current_pattern.description = value ]
        ELSE st

\* a continuation line of a block scalar (lines 122-127)
Continuation(st, line) ==
    [ st EXCEPT !.multiline_value = Append(@, Strip(line)) ]

\* ParseLine without its test for a blank line
ParseLine_NoBlankTest(st, line) ==
    LET stripped == Strip(line) IN
    IF stripped \in {"malicious:", "benign:"}
    THEN SectionHeader(st, stripped)
    ELSE IF IsTestItem(st, stripped)
    THEN TestItem(st, stripped)
    ELSE IF StartsWith(stripped, "- ") /\ st.current_section = "patterns"
    THEN PatternsItem(st, stripped)
    ELSE IF Contains(line, ":") /\ ~StartsWith(line, "  ")
    THEN KeyValue(st, line)
    ELSE IF /\ StartsWith(line, "  ")
            /\ st.in_patterns_list
            /\ st.current_pattern # NoPattern
    THEN NestedKeyValue(st, line)
    ELSE IF /\ st.current_section \in {"description", "pattern"}
            /\ StartsWith(line, " ")
            /\ ~st.in_patterns_list
    THEN Continuation(st, line)
    ELSE st

\* one iteration of the loop over the lines (lines 29-127)
ParseLine(st, line) ==
    LET stripped == Strip(line) IN
    IF stripped = "" THEN st
    ELSE IF stripped \in {"malicious:", "benign:"}
    THEN SectionHeader(st, stripped)
    ELSE IF IsTestItem(st, stripped)
    THEN TestItem(st, stripped)
    ELSE IF StartsWith(stripped, "- ") /\ st.current_section = "patterns"
    THEN PatternsItem(st, stripped)
    ELSE IF Contains(line, ":") /\ ~StartsWith(line, "  ")
    THEN KeyValue(st, line)
    ELSE IF /\ StartsWith(line, "  ")
            /\ st.in_patterns_list
            /\ st.current_pattern # NoPattern
    THEN NestedKeyValue(st, line)
    ELSE IF /\ st.current_section \in {"description", "pattern"}
            /\ StartsWith(line, " ")
            /\ ~st.in_patterns_list
    THEN Continuation(st, line)
    ELSE st

\* the code after the loop (lines 129-144)
ParseEnd(st) ==
    LET f == FinalFlush(st) IN
    IF f.current_pattern # NoPattern
    THEN [ f EXCEPT !.pattern_data.patterns = Append(@, f.current_pattern) ]
    ELSE f

\* the loop over lines[from..], an exception ending it
RECURSIVE ParseFrom(_, _, _)
ParseFrom(st, lines, from) ==
    IF from > Len(lines) \/ st.raised THEN st
    ELSE ParseFrom(ParseLine(st, lines[from]), lines, from + 1)

\* parse_yaml_pattern on a file with these lines: the state at return
ParseState(lines) ==
    LET st == ParseFrom(ParseInit, lines, 1) IN
    IF st.raised THEN st ELSE ParseEnd(st)

\* parse_yaml_pattern on a file with these lines: the document returned
parse_yaml_pattern(lines) == ParseState(lines).pattern_data


(***************************************************************************)
(* run_tests.py: its own parse_yaml_pattern (lines 34-143), which          *)
(* test_pattern of run_tests.py calls.  The loop state is a record with    *)
(* the function's local variables; there is no in_test_list.               *)
(***************************************************************************)
\* the state before the first line (lines 39-53)
RT_ParseInit ==
    [ pattern_data     |-> [ name |-> "", severity |-> "", description |-> "",
                             pattern |-> "", patterns |-> <<>>,
                             malicious |-> <<>>, benign |-> <<>> ],
      current_section  |-> None,
      multiline_value  |-> <<>>,
      current_pattern  |-> NoPattern,
      in_patterns_list |-> FALSE ]

\* the example a list item stands for (lines 81-82)
RT_Unquote(item) ==
    IF StartsWith(item, "\"") /\ EndsWith(item, "\"")
    THEN Replace(Inner(item), "\\\"", "\"")
    ELSE item

\* a list item (lines 63-88)
RT_ListItem(st, stripped) ==
    LET item == Strip(DropFirst(stripped, 2)) IN
    IF st.current_section = "patterns"
    THEN IF StartsWith(item, "name:")
         THEN [ st EXCEPT
                  !.pattern_data =
                      IF st.current_pattern # NoPattern
                      THEN [ @ EXCEPT
                               !.patterns = Append(@, st.current_pattern) ]
                      ELSE @,
                  !.current_pattern =
                      [ name        |-> Strip(DropFirst(item, 5)),
                        pattern     |-> "",
                        description |-> "" ],
                  !.in_patterns_list = TRUE ]
         ELSE st
    ELSE IF st.current_section \in {"malicious", "benign"}
    THEN [ st EXCEPT
             !.pattern_data[st.current_section] = Append(@, RT_Unquote(item)) ]
    ELSE st

\* the flush before a top-level key (lines 93-96)
RT_Flush(st) ==
    IF st.multiline_value # <<>> /\ st.current_section # None
    THEN [ st EXCEPT
             !.pattern_data =
                 IF st.current_section = "pattern" /\ ~st.in_patterns_list
                 THEN [ @ EXCEPT
                          !.pattern = Strip(Join("\n", st.multiline_value)) ]
                 ELSE @,
             !.multiline_value = <<>> ]
    ELSE st

\* a top-level key/value line (lines 91-115)
RT_KeyValue(st, line) ==
    LET f     == RT_Flush(st)
        kv    == Partition(line, ":")
        key   == Strip(kv[1])
        value == Strip(kv[2])
    IN  IF key \in {"name", "severity"}
        THEN [ f EXCEPT
                 !.pattern_data[key] = value,
                 !.current_section   = None,
                 !.in_patterns_list  = FALSE ]
        ELSE IF key \in {"description", "pattern"}
        THEN [ f EXCEPT
                 !.current_section = key,
                 !.multiline_value =
                     IF value # "" /\ value # "|" /\ value # ">"
                     THEN <<value>> ELSE @ ]
        ELSE IF key = "patterns"
        THEN [ f EXCEPT !.current_section = key, !.in_patterns_list = TRUE ]
        ELSE IF key \in {"malicious", "benign"}
        THEN [ f EXCEPT !.current_section = key, !.in_patterns_list = FALSE ]
        ELSE f

\* one iteration of the loop over the lines (lines 55-133); the branches for
\* a nested key/value (lines 117-126) and a continuation line (lines
\* 128-133) are word for word those of yaml_parser.py
RT_ParseLine(st, line) ==
    LET stripped == Strip(line) IN
    IF stripped = "" THEN st
    ELSE IF StartsWith(stripped, "- ")
    THEN RT_ListItem(st, stripped)
    ELSE IF Contains(line, ":") /\ ~StartsWith(line, "  ")
    THEN RT_KeyValue(st, line)
    ELSE IF /\ StartsWith(line, "  ")
            /\ st.in_patterns_list
            /\ st.current_pattern # NoPattern
    THEN NestedKeyValue(st, line)
    ELSE IF /\ st.current_section \in {"description", "pattern"}
            /\ StartsWith(line, " ")
            /\ ~st.in_patterns_list
    THEN Continuation(st, line)
    ELSE st

\* the code after the loop (lines 135-143)
RT_ParseEnd(st) ==
    LET f == IF st.multiline_value # <<>> /\ st.current_section # None
             THEN [ st EXCEPT
                      !.pattern_data[st.current_section] =
                          Strip(Join("\n", st.multiline_value)) ]
             ELSE st
    IN  IF f.current_pattern # NoPattern
        THEN [ f EXCEPT !.pattern_data.patterns = Append(@, f.current_pattern) ]
        ELSE f

\* the loop over lines[from..]
RECURSIVE RT_ParseFrom(_, _, _)
RT_ParseFrom(st, lines, from) ==
    IF from > Len(lines) THEN st
    ELSE RT_ParseFrom(RT_ParseLine(st, lines[from]), lines, from + 1)

\* run_tests.py's parse_yaml_pattern on a file with these lines: the
\* document returned
RT_parse_yaml_pattern(lines) ==
    RT_ParseEnd(RT_ParseFrom(RT_ParseInit, lines, 1)).pattern_data

(***************************************************************************)
(* Python's re, for the expressions the rules of the model use: literal    *)
(* characters, `.`, `^`, `$`, groups `( )`, alternation `|` and a leading  *)
(* inline flag `(?i)`.  A compiled pattern is [pattern, flags].            *)
(***************************************************************************)
IGNORECASE == "IGNORECASE"
DOTALL == "DOTALL"

UpperCase == "ABCDEFGHIJKLMNOPQRSTUVWXYZ"
LowerCase == "abcdefghijklmnopqrstuvwxyz"

\* c.lower() of one character
Lower(c) ==
    IF Contains(UpperCase, c) THEN Ch(LowerCase, Find(UpperCase, c)) ELSE c

\* the expression after a leading (?i)
RegexBody(p) == IF StartsWith(p, "(?i)") THEN DropFirst(p, 4) ELSE p

\* the nesting depth after the first i characters of b
RECURSIVE Depth(_, _)
Depth(b, i) ==
    IF i = 0 THEN 0
    ELSE Depth(b, i - 1)
         + (IF Ch(b, i) = "(" THEN 1 ELSE IF Ch(b, i) = ")" THEN -1 ELSE 0)

\* re.compile(p) does not raise re.error: every `)` closes a group, every
\* group is closed, and an inline flag stands only at the very start
\* ("global flags not at the start of the expression")
RegexValid(p) ==
    LET b == RegexBody(p) IN
    /\ \A i \in 1..Len(b) : Depth(b, i) >= 0
    /\ Depth(b, Len(b)) = 0
    /\ ~Contains(b, "(?")

\* the positions of the `|` of b that are in no group
TopBars(b) == { i \in 1..Len(b) : Ch(b, i) = "|" /\ Depth(b, i) = 0 }

Min(S) == CHOOSE x \in S : \A y \in S : x <= y

\* the position of the `)` that closes the `(` at position 1 of b
GroupEnd(b) == Min({ i \in 1..Len(b) : Depth(b, i) = 0 })

\* one character of the text against one literal of the expression
CharMatches(tc, ec, ignorecase) ==
    IF ignorecase THEN Lower(tc) = Lower(ec) ELSE tc = ec

\* the positions of text t at which a match of expression b can end when it
\* starts at a position of S (positions are 1..Len(t)+1)
RECURSIVE Ends(_, _, _, _)
Ends(b, t, S, flags) ==
    IF S = {} THEN {}
    ELSE IF TopBars(b) # {}
    THEN LET i == Min(TopBars(b)) IN
         Ends(SubSeq(b, 1, i - 1), t, S, flags)
             \cup Ends(DropFirst(b, i), t, S, flags)
    ELSE IF b = "" THEN S
    ELSE LET c    == Ch(b, 1)
             rest == DropFirst(b, 1)
         IN  IF c = "("
             THEN LET k == GroupEnd(b) IN
                  Ends(DropFirst(b, k), t,
                       Ends(SubSeq(b, 2, k - 1), t, S, flags), flags)
             ELSE IF c = "^"
             THEN Ends(rest, t, S \cap {1}, flags)
             ELSE IF c = "$"
             THEN Ends(rest, t,
                       { s \in S : \/ s = Len(t) + 1
                                   \/ s = Len(t) /\ Ch(t, s) = "\n" },
                       flags)
             ELSE IF c = "."
             THEN Ends(rest, t,
                       { s + 1 : s \in
                           { x \in S : /\ x <= Len(t)
                                       /\ (DOTALL \in flags \/ Ch(t, x) # "\n") } },
                       flags)
             ELSE Ends(rest, t,
                       { s + 1 : s \in
                           { x \in S : /\ x <= Len(t)
                                       /\ CharMatches(Ch(t, x), c,
                                                      IGNORECASE \in flags) } },
                       flags)

\* the flags in force: those given to re.compile and the inline one
EffectiveFlags(m) ==
    m.flags \cup (IF StartsWith(m.pattern, "(?i)") THEN {IGNORECASE} ELSE {})

\* m.search(t) is not None: a match starts somewhere in t
Search(m, t) ==
    \E s \in 1..(Len(t) + 1) :
        Ends(RegexBody(m.pattern), t, {s}, EffectiveFlags(m)) # {}


\* re.compile(pattern, flags), for a pattern that is valid
ReCompile(pattern, flags) == [ pattern |-> pattern, flags |-> flags ]

\* line[:80] of the failure messages
PreviewLen == 80

\* a compile-stage error as it is reported: its kind and, in sub, the
\* sub-pattern name the message carries (<<>> when it carries none)
Error(kind, sub) == [ kind |-> kind, sub |-> sub ]
NoError == Error("none", <<>>)

\* a failed example as it is reported
Failure(pattern_name, kind, line) ==
    [ pattern_name |-> pattern_name, kind |-> kind,
      preview |-> Prefix(line, PreviewLen) ]

(***************************************************************************)
(* run_tests.py                                                            *)
(***************************************************************************)
\* TestResult() (lines 23-31)
TestResult ==
    [ total_patterns |-> 0, passed_patterns |-> 0, failed_patterns |-> 0,
      total_tests |-> 0, passed_tests |-> 0, failed_tests |-> 0,
      failures |-> <<>> ]

\* test_command (lines 146-153)
test_command(pattern, command, should_match) ==
    LET matches == Search(pattern, command) IN
    IF should_match THEN matches ELSE ~matches

\* RT_any asking the first compiled pattern only
RT_any_FirstOnly(patterns, line, k) ==
    k <= Len(patterns) /\ test_command(patterns[k], line, TRUE)

\* any(test_command(p, line, True) for p in patterns) (lines 205, 225)
RECURSIVE RT_any(_, _, _)
RT_any(patterns, line, k) ==
    IF k > Len(patterns) THEN FALSE
    ELSE IF test_command(patterns[k], line, TRUE) THEN TRUE
    ELSE RT_any(patterns, line, k + 1)

\* the flags run_tests.py compiles with (lines 172, 180)
RT_flags == {IGNORECASE, DOTALL}

\* the loop over the sub-patterns (lines 170-176)
RECURSIVE RT_compile_list(_, _, _)
RT_compile_list(ps, k, acc) ==
    IF k > Len(ps) THEN [ error |-> NoError, patterns |-> acc ]
    ELSE IF RegexValid(ps[k].pattern)
    THEN RT_compile_list(ps, k + 1,
                         Append(acc, ReCompile(ps[k].pattern, RT_flags)))
    ELSE [ error |-> Error("Invalid regex", <<ps[k].name>>),
           patterns |-> <<>> ]

\* RT_compile preferring the top-level pattern to the patterns list
RT_compile_PatternFirst(pattern_data) ==
    IF pattern_data.pattern # ""
    THEN IF RegexValid(pattern_data.pattern)
         THEN [ error |-> NoError,
                patterns |-> <<ReCompile(pattern_data.pattern, RT_flags)>> ]
         ELSE [ error |-> Error("Invalid regex", <<>>), patterns |-> <<>> ]
    ELSE IF pattern_data.patterns # <<>>
    THEN RT_compile_list(pattern_data.patterns, 1, <<>>)
    ELSE [ error |-> Error("Missing pattern", <<>>), patterns |-> <<>> ]

\* the patterns of a document, compiled (lines 166-187)
RT_compile(pattern_data) ==
    IF pattern_data.patterns # <<>>
    THEN RT_compile_list(pattern_data.patterns, 1, <<>>)
    ELSE IF pattern_data.pattern # ""
    THEN IF RegexValid(pattern_data.pattern)
         THEN [ error |-> NoError,
                patterns |-> <<ReCompile(pattern_data.pattern, RT_flags)>> ]
         ELSE [ error |-> Error("Invalid regex", <<>>), patterns |-> <<>> ]
    ELSE [ error |-> Error("Missing pattern", <<>>), patterns |-> <<>> ]

\* the local counters of test_pattern and the result object it updates
\* (lines 189-194); matched logs the value of `matched` per tested example
RT_locals(result) ==
    [ result |-> result,
      malicious_count |-> 0, benign_count |-> 0,
      malicious_passed |-> 0, benign_passed |-> 0,
      malicious_failed |-> 0, benign_failed |-> 0,
      matched |-> <<>> ]

\* RT_malicious_loop recording no failure entry for a failed test
RECURSIVE RT_malicious_loop_Unrecorded(_, _, _, _, _)
RT_malicious_loop_Unrecorded(ev, pattern_name, patterns, lines, i) ==
    IF i > Len(lines) THEN ev
    ELSE IF Strip(lines[i]) = ""
    THEN RT_malicious_loop_Unrecorded(ev, pattern_name, patterns, lines, i + 1)
    ELSE LET matched == RT_any(patterns, lines[i], 1)
             counted == [ ev EXCEPT !.malicious_count = @ + 1,
                                    !.result.total_tests = @ + 1,
                                    !.matched = Append(@, matched) ]
         IN  RT_malicious_loop_Unrecorded(
                 IF matched
                 THEN [ counted EXCEPT !.malicious_passed = @ + 1,
                                       !.result.passed_tests = @ + 1 ]
                 ELSE [ counted EXCEPT !.malicious_failed = @ + 1,
                                       !.result.failed_tests = @ + 1 ],
                 pattern_name, patterns, lines, i + 1)

\* the loop over the malicious examples, from the i-th (lines 197-214)
RECURSIVE RT_malicious_loop(_, _, _, _, _)
RT_malicious_loop(ev, pattern_name, patterns, lines, i) ==
    IF i > Len(lines) THEN ev
    ELSE IF Strip(lines[i]) = ""
    THEN RT_malicious_loop(ev, pattern_name, patterns, lines, i + 1)
    ELSE LET matched == RT_any(patterns, lines[i], 1)
             counted == [ ev EXCEPT !.malicious_count = @ + 1,
                                    !.result.total_tests = @ + 1,
                                    !.matched = Append(@, matched) ]
         IN  RT_malicious_loop(
                 IF matched
                 THEN [ counted EXCEPT !.malicious_passed = @ + 1,
                                       !.result.passed_tests = @ + 1 ]
                 ELSE [ counted EXCEPT
                          !.malicious_failed = @ + 1,
                          !.result.failed_tests = @ + 1,
                          !.result.failures =
                              Append(@, Failure(pattern_name,
                                                "FALSE NEGATIVE", lines[i])) ],
                 pattern_name, patterns, lines, i + 1)

\* RT_benign_loop judging the benign examples as the malicious ones are
RT_benign_loop_AsMalicious(ev, pattern_name, patterns, lines, i) ==
    RT_malicious_loop(ev, pattern_name, patterns, lines, i)

\* the loop over the benign examples, from the i-th (lines 217-234)
RECURSIVE RT_benign_loop(_, _, _, _, _)
RT_benign_loop(ev, pattern_name, patterns, lines, i) ==
    IF i > Len(lines) THEN ev
    ELSE IF Strip(lines[i]) = ""
    THEN RT_benign_loop(ev, pattern_name, patterns, lines, i + 1)
    ELSE LET matched == RT_any(patterns, lines[i], 1)
             counted == [ ev EXCEPT !.benign_count = @ + 1,
                                    !.result.total_tests = @ + 1,
                                    !.matched = Append(@, matched) ]
         IN  RT_benign_loop(
                 IF ~matched
                 THEN [ counted EXCEPT !.benign_passed = @ + 1,
                                       !.result.passed_tests = @ + 1 ]
                 ELSE [ counted EXCEPT
                          !.benign_failed = @ + 1,
                          !.result.failed_tests = @ + 1,
                          !.result.failures =
                              Append(@, Failure(pattern_name,
                                                "FALSE POSITIVE", lines[i])) ],
                 pattern_name, patterns, lines, i + 1)

\* the verdict on one document (lines 236-254)
RT_verdict(ev) ==
    LET total_pattern_tests  == ev.malicious_count + ev.benign_count
        failed_pattern_tests == ev.malicious_failed + ev.benign_failed
    IN  IF failed_pattern_tests = 0 /\ total_pattern_tests > 0
        THEN [ ev EXCEPT !.result.passed_patterns = @ + 1 ] @@ [ ret |-> TRUE ]
        ELSE [ ev EXCEPT !.result.failed_patterns = @ + 1 ] @@ [ ret |-> FALSE ]

\* test_pattern(yaml_file, result) on the file named pattern_name that parses
\* to pattern_data (lines 156-254): the locals at return, the updated result,
\* the value returned, the compiled patterns and the error printed
RT_test_pattern(pattern_name, pattern_data, result) ==
    LET c == RT_compile(pattern_data) IN
    IF c.error # NoError
    THEN RT_locals(result) @@ [ ret |-> FALSE ] @@ c
    ELSE RT_verdict(
             RT_benign_loop(
                 RT_malicious_loop(RT_locals(result), pattern_name, c.patterns,
                                   pattern_data.malicious, 1),
                 pattern_name, c.patterns, pattern_data.benign, 1)) @@ c

\* RT_pass_percent rounding to the nearest percent
RT_pass_percent_Rounded(result) ==
    IF result.total_tests > 0
    THEN << (result.passed_tests * 100 + result.total_tests \div 2)
            \div result.total_tests >>
    ELSE <<>>

\* the success rate of the summary (lines 344-347): <<pass_percent>> when
\* it is printed, <<>> when it is not
RT_pass_percent(result) ==
    IF result.total_tests > 0
    THEN << (result.passed_tests * 100) \div result.total_tests >>
    ELSE <<>>

\* the exit status of main (lines 361-366)
RT_exit_status(result) ==
    IF result.failed_tests = 0 /\ result.total_tests > 0 THEN 0 ELSE 1

\* RT_test_file taking a file it cannot parse for the end of the run: the
\* counters are reset
RT_test_file_Resetting(file, result) ==
    IF ~file.parses
    THEN RT_locals(TestResult)
         @@ [ ret |-> FALSE, patterns |-> <<>>,
              error |-> Error("Failed to parse YAML", <<>>) ]
    ELSE RT_test_pattern(file.stem, file.data, result)

\* test_pattern(yaml_file, result) on a rule file (lines 156-254): the file
\* cannot be read and parsed (lines 160-164) or parses to file.data
RT_test_file(file, result) ==
    IF ~file.parses
    THEN RT_locals(result)
         @@ [ ret |-> FALSE, patterns |-> <<>>,
              error |-> Error("Failed to parse YAML", <<>>) ]
    ELSE RT_test_pattern(file.stem, file.data, result)

\* `for yaml_file in yaml_files: test_pattern(yaml_file, result)` from the
\* k-th file (lines 312-313): the result object and what test_pattern
\* computed for each file
RECURSIVE RT_main_loop(_, _, _, _)
RT_main_loop(files, k, result, log) ==
    IF k > Len(files) THEN [ result |-> result, outcomes |-> log ]
    ELSE LET r == RT_test_file(files[k], result)
         IN  RT_main_loop(files, k + 1, r.result, Append(log, r))

(***************************************************************************)
(* test/run.py                                                             *)
(***************************************************************************)
\* check_format without its test of the closing parenthesis
check_format_PrefixOnly(pattern) ==
    LET p == Strip(pattern) IN
    StartsWith(p, "(?i)") /\ ~StartsWith(p, "(?i)(")

\* check_format (lines 13-22): TRUE when it returns an error message
check_format(pattern) ==
    LET p == Strip(pattern) IN
    StartsWith(p, "(?i)") /\ ~(StartsWith(p, "(?i)(") /\ EndsWith(p, ")"))

\* the flags test/run.py compiles with (lines 34, 39)
TR_flags == {DOTALL}

\* the loop over the sub-patterns (lines 30-34)
RECURSIVE TR_compile_list(_, _, _)
TR_compile_list(ps, k, acc) ==
    IF k > Len(ps) THEN [ error |-> NoError, patterns |-> acc ]
    ELSE LET pattern == Strip(ps[k].pattern) IN
         IF check_format(pattern)
         THEN [ error |-> Error("Format", <<ps[k].name>>), patterns |-> <<>> ]
         ELSE IF ~RegexValid(pattern)
         THEN [ error |-> Error("Invalid regex", <<>>), patterns |-> <<>> ]
         ELSE TR_compile_list(ps, k + 1,
                              Append(acc, ReCompile(pattern, TR_flags)))

\* compile_patterns (lines 25-43): the list returned, or the exception raised
compile_patterns(data) ==
    IF data.patterns # <<>>
    THEN TR_compile_list(data.patterns, 1, <<>>)
    ELSE IF data.pattern # ""
    THEN LET pattern == Strip(data.pattern) IN
         IF check_format(pattern)
         THEN [ error |-> Error("Format", <<>>), patterns |-> <<>> ]
         ELSE IF ~RegexValid(pattern)
         THEN [ error |-> Error("Invalid regex", <<>>), patterns |-> <<>> ]
         ELSE [ error |-> NoError,
                patterns |-> <<ReCompile(pattern, TR_flags)>> ]
    ELSE [ error |-> Error("Missing pattern", <<>>), patterns |-> <<>> ]

\* any(p.search(line) for p in patterns) (lines 50, 53)
RECURSIVE TR_any(_, _, _)
TR_any(patterns, line, k) ==
    IF k > Len(patterns) THEN FALSE
    ELSE IF Search(patterns[k], line) THEN TRUE
    ELSE TR_any(patterns, line, k + 1)

\* the first loop of run_tests, from the i-th example (lines 49-51); acc
\* holds the failures and logs the value of any(...) per tested example
RECURSIVE TR_malicious_loop(_, _, _, _)
TR_malicious_loop(acc, patterns, malicious, i) ==
    IF i > Len(malicious) THEN acc
    ELSE IF Strip(malicious[i]) = ""
    THEN TR_malicious_loop(acc, patterns, malicious, i + 1)
    ELSE TR_malicious_loop(
             IF TR_any(patterns, malicious[i], 1)
             THEN [ acc EXCEPT !.matched = Append(@, TRUE) ]
             ELSE [ acc EXCEPT
                      !.matched = Append(@, FALSE),
                      !.failures =
                          Append(@, Failure("", "FALSE NEGATIVE",
                                            malicious[i])) ],
             patterns, malicious, i + 1)

\* the second loop of run_tests, from the i-th example (lines 52-54)
RECURSIVE TR_benign_loop(_, _, _, _)
TR_benign_loop(acc, patterns, benign, i) ==
    IF i > Len(benign) THEN acc
    ELSE IF Strip(benign[i]) = ""
    THEN TR_benign_loop(acc, patterns, benign, i + 1)
    ELSE TR_benign_loop(
             IF TR_any(patterns, benign[i], 1)
             THEN [ acc EXCEPT
                      !.matched = Append(@, TRUE),
                      !.failures =
                          Append(@, Failure("", "FALSE POSITIVE", benign[i])) ]
             ELSE [ acc EXCEPT !.matched = Append(@, FALSE) ],
             patterns, benign, i + 1)

\* run_tests (lines 46-55): the failures returned, with the log
run_tests(patterns, malicious, benign) ==
    TR_benign_loop(
        TR_malicious_loop([ failures |-> <<>>, matched |-> <<>> ],
                          patterns, malicious, 1),
        patterns, benign, 1)

\* test_pattern(yaml_file) on the file named name that loads as data (lines
\* 58-72): passed, failed and failures as returned, with the compiled
\* patterns, the exception caught and the log of run_tests
TR_test_pattern(name, data) ==
    LET c == compile_patterns(data) IN
    IF c.error # NoError
    THEN [ passed |-> 0, failed |-> 1,
           failures |-> << [ pattern_name |-> name, kind |-> c.error.kind,
                             preview |-> "" ] >>,
           matched |-> <<>> ] @@ c
    ELSE LET t        == run_tests(c.patterns, data.malicious, data.benign)
             failures == [ i \in 1..Len(t.failures) |->
                             [ t.failures[i] EXCEPT !.pattern_name = name ] ]
             total    == Len(data.malicious) + Len(data.benign)
         IN  [ passed |-> total - Len(failures), failed |-> Len(failures),
               failures |-> failures, matched |-> t.matched ] @@ c

\* the exit status of main (lines 115-120)
TR_exit_status(total_failed) == IF total_failed # 0 THEN 1 ELSE 0

\* test_pattern(yaml_file) on a rule file (lines 58-72): the file cannot be
\* read and loaded (lines 62, 69-70) or loads as file.data
TR_test_file(file) ==
    IF ~file.parses
    THEN [ passed |-> 0, failed |-> 1,
           failures |-> << [ pattern_name |-> file.stem,
                             kind |-> "Failed to parse YAML",
                             preview |-> "" ] >>,
           matched |-> <<>>, patterns |-> <<>>,
           error |-> Error("Failed to parse YAML", <<>>) ]
    ELSE TR_test_pattern(file.stem, file.data)

\* TR_totals putting the failures of a file before those of the earlier
\* files
TR_totals_Prepending(acc, r) ==
    [ total_passed |-> acc.total_passed + r.passed,
      total_failed |-> acc.total_failed + r.failed,
      all_failures |-> r.failures \o acc.all_failures,
      outcomes     |-> Append(acc.outcomes, r) ]

\* TR_totals assigning the passed count of a file instead of adding it
TR_totals_Overwriting(acc, r) ==
    [ total_passed |-> r.passed,
      total_failed |-> acc.total_failed + r.failed,
      all_failures |-> acc.all_failures \o r.failures,
      outcomes     |-> Append(acc.outcomes, r) ]

\* the body of the loop of main (lines 101-104): the totals, with what
\* test_pattern returned for each file
TR_totals(acc, r) ==
    [ total_passed |-> acc.total_passed + r.passed,
      total_failed |-> acc.total_failed + r.failed,
      all_failures |-> acc.all_failures \o r.failures,
      outcomes     |-> Append(acc.outcomes, r) ]

\* the loop of main from the k-th file (lines 100-104)
RECURSIVE TR_main_loop(_, _, _)
TR_main_loop(files, k, acc) ==
    IF k > Len(files) THEN acc
    ELSE TR_main_loop(files, k + 1, TR_totals(acc, TR_test_file(files[k])))


(***************************************************************************)
(* The inputs of the model.                                                *)
(***************************************************************************)
\* the lines a rule file is made of
FileLines ==
    { "name: n", "description: d", "pattern: a", "pattern: |", "patterns:",
      "- name: s", "  pattern: b", "  description: q", " c", "malicious:",
      "benign:", "- x", "- 'y'", "foo: z", "  " }

\* the pattern texts of the documents under test
PatternTexts ==
    { "", "a", "b", "(", "(?i)a|b", "(?i)(a|b)", "(?i)(a)|b", "(?i)(a)|(b)" }

\* the example texts of the documents under test
ExampleTexts == { "", " ", "xbz", "A" }

\* the sequences over S of length n
SeqsOfLen(S, n) == [ 1..n -> S ]

\* the name of the k-th sub-pattern of a document under test
SubName(k) == "s" \o Ch("123456789", k)

\* the patterns list whose entries have these pattern texts
SubPatterns(ps) ==
    [ k \in 1..Len(ps) |->
        [ name |-> SubName(k), pattern |-> ps[k], description |-> "" ] ]

\* a document under test, as a parser hands it to a runner: a top-level
\* pattern, sub-patterns, malicious and benign examples
Doc(p, ps, mal, ben) ==
    [ name |-> "n", severity |-> "", description |-> "",
      pattern |-> p, patterns |-> SubPatterns(ps),
      malicious |-> mal, benign |-> ben ]

\* the numbers of sub-patterns, malicious and benign examples of the
\* documents under test
Shapes ==
    { sh \in (0..MaxItems) \X (0..MaxItems) \X (0..MaxItems) :
        sh[1] + sh[2] + sh[3] <= MaxItems }

\* the stem of the rule file under test
Stem == "f"

(***************************************************************************)
(* The state.                                                              *)
(***************************************************************************)
VARIABLES
    \* which program runs: "yaml_parser.py", "run_tests.py" or "test/run.py"
    program,
    \* yaml_parser.py, parse_yaml_pattern: the lines read so far, where the
    \* function is ("loop", "returned", "raised") and its local variables
    lines, status,
    pattern_data, current_section, multiline_value, current_pattern,
    in_patterns_list, in_test_list,
    \* yaml_parser.py: the calls of parse_yaml_pattern that have returned,
    \* each with the lines it read and the document it returned
    parsed,
    \* the runners: where main is ("start", "tested", "exited"), the document
    \* of the file given to test_pattern, what test_pattern computed for it
    \* and the exit status of the process
    phase, data, outcome, exit_status,
    \* run_tests.py: the TestResult object of main
    result,
    \* run_tests.py: the success rate the summary prints, <<>> when none
    pass_percent,
    \* test/run.py: the totals of main
    total_passed, total_failed, all_failures,
    \* the runners without a PATTERN argument: the files main found and, for
    \* each file the loop of main is done with, what test_pattern computed
    yaml_files, outcomes

parser_vars ==
    << lines, status, pattern_data, current_section, multiline_value,
       current_pattern, in_patterns_list, in_test_list, parsed >>

runner_vars ==
    << phase, data, outcome, exit_status, result, pass_percent, total_passed,
       total_failed, all_failures, yaml_files, outcomes >>

vars == << program, parser_vars, runner_vars >>

\* the local variables of parse_yaml_pattern, as one record
ParserState ==
    [ pattern_data     |-> pattern_data,
      current_section  |-> current_section,
      multiline_value  |-> multiline_value,
      current_pattern  |-> current_pattern,
      in_patterns_list |-> in_patterns_list,
      in_test_list     |-> in_test_list,
      raised           |-> status = "raised" ]

\* the local variables of parse_yaml_pattern become those of st
SetParserState(st) ==
    /\ pattern_data'     = st.pattern_data
    /\ current_section'  = st.current_section
    /\ multiline_value'  = st.multiline_value
    /\ current_pattern'  = st.current_pattern
    /\ in_patterns_list' = st.in_patterns_list
    /\ in_test_list'     = st.in_test_list

\* no document yet
NoData == <<>>

InitParser ==
    /\ lines = <<>>
    /\ status = "loop"
    /\ pattern_data = ParseInit.pattern_data
    /\ current_section = ParseInit.current_section
    /\ multiline_value = ParseInit.multiline_value
    /\ current_pattern = ParseInit.current_pattern
    /\ in_patterns_list = ParseInit.in_patterns_list
    /\ in_test_list = ParseInit.in_test_list
    /\ parsed = <<>>

InitRunner ==
    /\ phase = "start"
    /\ data = NoData
    /\ outcome = <<>>
    /\ exit_status = 0
    /\ result = TestResult
    /\ pass_percent = <<>>
    /\ total_passed = 0
    /\ total_failed = 0
    /\ all_failures = <<>>
    /\ yaml_files = <<>>
    /\ outcomes = <<>>

(***************************************************************************)
(* yaml_parser.py as a state machine: the file is revealed line by line.   *)
(***************************************************************************)
\* one iteration of `for line in lines` (lines 29-127)
ReadLine ==
    /\ program = "yaml_parser.py"
    /\ status = "loop"
    /\ Len(lines) < MaxLines
    /\ \E line \in FileLines :
         /\ \E st \in { ParseLine(ParserState, line) } :
              /\ SetParserState(st)
              /\ status' = IF st.raised THEN "raised" ELSE "loop"
         /\ lines' = Append(lines, line)
    /\ UNCHANGED << program, parsed, runner_vars >>

\* the file has no more lines: the code after the loop (lines 129-144)
EndOfInput ==
    /\ program = "yaml_parser.py"
    /\ status = "loop"
    /\ \E st \in { ParseEnd(ParserState) } : SetParserState(st)
    /\ status' = "returned"
    /\ UNCHANGED << program, lines, parsed, runner_vars >>

Init ==
    /\ program = "yaml_parser.py"
    /\ InitParser
    /\ InitRunner

Next ==
    \/ ReadLine
    \/ EndOfInput

Spec == Init /\ [][Next]_vars

(***************************************************************************)
(* yaml_parser.py on a test section with one list item.                    *)
(***************************************************************************)
\* the characters the generated list items are made of
ItemChars == << "\"", "'", "\\", "a", " " >>

\* the text made of the characters cs
RECURSIVE TextOf(_)
TextOf(cs) == IF cs = <<>> THEN "" ELSE Head(cs) \o TextOf(Tail(cs))

\* list items written out in full
LongItems == { "\"curl \\\"http://x\\\"\"", "'a \\\"b\\\"'", "\"a'" }

\* one iteration of the loop (lines 29-127) on a section header
ReadHeader ==
    /\ program = "yaml_parser.py"
    /\ status = "loop"
    /\ lines = <<>>
    /\ \E line \in { "malicious:", "benign:" } :
         /\ \E st \in { ParseLine(ParserState, line) } :
              /\ SetParserState(st)
              /\ status' = IF st.raised THEN "raised" ELSE "loop"
         /\ lines' = Append(lines, line)
    /\ UNCHANGED << program, parsed, runner_vars >>

\* one iteration of the loop (lines 29-127) on a list item
ReadItem ==
    /\ program = "yaml_parser.py"
    /\ status = "loop"
    /\ Len(lines) = 1
    /\ \E item \in LongItems
                   \cup { TextOf(cs) :
                            cs \in UNION { [ 1..n -> { ItemChars[k] :
                                                         k \in 1..Len(ItemChars) } ] :
                                             n \in 1..MaxItemLen } } :
       \E line \in { "  - " \o item } :
         /\ \E st \in { ParseLine(ParserState, line) } :
              /\ SetParserState(st)
              /\ status' = IF st.raised THEN "raised" ELSE "loop"
         /\ lines' = Append(lines, line)
    /\ UNCHANGED << program, parsed, runner_vars >>

NextItems ==
    \/ ReadHeader
    \/ ReadItem
    \/ EndOfInput

SpecItems == Init /\ [][NextItems]_vars

(***************************************************************************)
(* yaml_parser.py on a patterns list with nested lines.                    *)
(***************************************************************************)
\* the lines of a file with a patterns list
NestedLines ==
    { "patterns:", "- name: s", "  - name: t", "description: d",
      "  pattern: b", "  pattern: c", "  description: q", "    pattern: b:c",
      "  foo: z", "  e", "  malicious:" }

\* one iteration of the loop (lines 29-127) on a line of such a file
ReadNestedLine ==
    /\ program = "yaml_parser.py"
    /\ status = "loop"
    /\ Len(lines) < MaxLines
    /\ \E line \in NestedLines :
         /\ \E st \in { ParseLine(ParserState, line) } :
              /\ SetParserState(st)
              /\ status' = IF st.raised THEN "raised" ELSE "loop"
         /\ lines' = Append(lines, line)
    /\ UNCHANGED << program, parsed, runner_vars >>

NextNested ==
    \/ ReadNestedLine
    \/ EndOfInput

SpecNested == Init /\ [][NextNested]_vars

(***************************************************************************)
(* yaml_parser.py called file after file in one process.                   *)
(***************************************************************************)
\* the lines of the files parsed one after the other
CallLines == { "name: n", "malicious:", "- x", "pattern: a" }

\* one iteration of the loop (lines 29-127) in one of several calls
ReadCallLine ==
    /\ program = "yaml_parser.py"
    /\ status = "loop"
    /\ Len(lines) < MaxCallLines
    /\ \E line \in CallLines :
         /\ \E st \in { ParseLine(ParserState, line) } :
              /\ SetParserState(st)
              /\ status' = IF st.raised THEN "raised" ELSE "loop"
         /\ lines' = Append(lines, line)
    /\ UNCHANGED << program, parsed, runner_vars >>

\* ParseCall without a new pattern_data: the dictionary of the call before
\* is used again
ParseCall_KeepingDocument ==
    /\ program = "yaml_parser.py"
    /\ status = "returned"
    /\ Len(parsed) + 1 < MaxCalls
    /\ parsed' = Append(parsed,
                        [ lines |-> lines, pattern_data |-> pattern_data ])
    /\ lines' = <<>>
    /\ status' = "loop"
    /\ SetParserState([ ParseInit EXCEPT !.pattern_data = pattern_data ])
    /\ UNCHANGED << program, runner_vars >>

\* parse_yaml_pattern has returned and is called on the next file: its
\* locals are created anew (lines 8-27)
ParseCall ==
    /\ program = "yaml_parser.py"
    /\ status = "returned"
    /\ Len(parsed) + 1 < MaxCalls
    /\ parsed' = Append(parsed,
                        [ lines |-> lines, pattern_data |-> pattern_data ])
    /\ lines' = <<>>
    /\ status' = "loop"
    /\ SetParserState(ParseInit)
    /\ UNCHANGED << program, runner_vars >>

NextCalls ==
    \/ ReadCallLine
    \/ EndOfInput
    \/ ParseCall

SpecCalls == Init /\ [][NextCalls]_vars

(***************************************************************************)
(* The runners as state machines: main on one rule file.                   *)
(***************************************************************************)
\* run_tests.py PATTERN: test_pattern(yaml_file, result) (lines 284-287)
RunTestsTestPattern ==
    /\ program = "run_tests.py"
    /\ phase = "start"
    /\ \E sh \in Shapes :
       \E p \in PatternTexts, ps \in SeqsOfLen(PatternTexts, sh[1]),
          mal \in SeqsOfLen(ExampleTexts, sh[2]),
          ben \in SeqsOfLen(ExampleTexts, sh[3]) :
       \E doc \in { Doc(p, ps, mal, ben) } :
         /\ \E r \in { RT_test_pattern(Stem, doc,
                                        [ result EXCEPT !.total_patterns = 1 ]) } :
              /\ result' = r.result
              /\ outcome' = r
         /\ data' = doc
    /\ phase' = "tested"
    /\ UNCHANGED << program, parser_vars, exit_status, pass_percent,
                    total_passed, total_failed, all_failures, yaml_files,
                    outcomes >>

\* run_tests.py: the summary and sys.exit (lines 315-366)
RunTestsExit ==
    /\ program = "run_tests.py"
    /\ phase = "tested"
    /\ pass_percent' = RT_pass_percent(result)
    /\ exit_status' = RT_exit_status(result)
    /\ phase' = "exited"
    /\ UNCHANGED << program, parser_vars, data, outcome, result, total_passed,
                    total_failed, all_failures, yaml_files, outcomes >>

\* test/run.py PATTERN: one iteration of the loop of main (lines 100-104)
TestRunTestPattern ==
    /\ program = "test/run.py"
    /\ phase = "start"
    /\ \E sh \in Shapes :
       \E p \in PatternTexts, ps \in SeqsOfLen(PatternTexts, sh[1]),
          mal \in SeqsOfLen(ExampleTexts, sh[2]),
          ben \in SeqsOfLen(ExampleTexts, sh[3]) :
       \E doc \in { Doc(p, ps, mal, ben) } :
         /\ \E r \in { TR_test_pattern(Stem, doc) } :
              /\ total_passed' = total_passed + r.passed
              /\ total_failed' = total_failed + r.failed
              /\ all_failures' = all_failures \o r.failures
              /\ outcome' = r
         /\ data' = doc
    /\ phase' = "tested"
    /\ UNCHANGED << program, parser_vars, exit_status, result, pass_percent,
                    yaml_files, outcomes >>

\* test/run.py: the summary and sys.exit (lines 106-120)
TestRunExit ==
    /\ program = "test/run.py"
    /\ phase = "tested"
    /\ exit_status' = TR_exit_status(total_failed)
    /\ phase' = "exited"
    /\ UNCHANGED << program, parser_vars, data, outcome, result, pass_percent,
                    total_passed, total_failed, all_failures, yaml_files,
                    outcomes >>

InitRunners ==
    /\ program \in { "run_tests.py", "test/run.py" }
    /\ InitParser
    /\ InitRunner

NextRunners ==
    \/ RunTestsTestPattern
    \/ TestRunTestPattern
    \/ RunTestsExit
    \/ TestRunExit

SpecRunners == InitRunners /\ [][NextRunners]_vars

(***************************************************************************)
(* The runners as state machines: main on all the rule files.              *)
(***************************************************************************)
\* a rule file: its stem, whether it can be read and parsed, its document
File(stem, parses, doc) == [ stem |-> stem, parses |-> parses, data |-> doc ]

\* the rule files the patterns directory may hold, in the order main lists
\* them: critical-*, high-*, medium-*, each sorted by name.  A file that
\* passes, one with an invalid sub-pattern, one with a malformed flag scope,
\* one that cannot be parsed, one with failures, one without examples.
PatternsDir ==
    << File("critical-a", TRUE, Doc("b", <<>>, <<"xbz">>, <<"A">>)),
       File("critical-b", TRUE, Doc("", <<"a", "(">>, <<"xbz">>, <<>>)),
       File("high-a", TRUE, Doc("(?i)a|b", <<>>, <<"xbz">>, <<"A">>)),
       File("high-b", FALSE, NoData),
       File("medium-a", TRUE, Doc("a", <<>>, <<"xbz", "A">>, <<"A">>)),
       File("medium-b", TRUE, Doc("a", <<>>, <<>>, <<" ">>)) >>

\* the files of dir at the positions S, from position k on, in the order of
\* dir
RECURSIVE SelectFiles(_, _, _)
SelectFiles(dir, S, k) ==
    IF k > Len(dir) THEN <<>>
    ELSE (IF k \in S THEN << dir[k] >> ELSE <<>>)
         \o SelectFiles(dir, S, k + 1)

\* the lists of files main can find: at most MaxFiles files of PatternsDir
\* are present
FileLists ==
    { SelectFiles(PatternsDir, S, 1) :
        S \in { T \in SUBSET (1..Len(PatternsDir)) :
                   Cardinality(T) <= MaxFiles } }

\* run_tests.py: the globs and result.total_patterns (lines 302-310)
RunTestsListFiles ==
    /\ program = "run_tests.py"
    /\ phase = "start"
    /\ \E files \in FileLists :
         /\ yaml_files' = files
         /\ result' = [ result EXCEPT !.total_patterns = Len(files) ]
    /\ phase' = "loop"
    /\ UNCHANGED << program, parser_vars, data, outcome, exit_status,
                    pass_percent, total_passed, total_failed, all_failures,
                    outcomes >>

\* run_tests.py: one iteration of the loop of main (lines 312-313)
RunTestsLoop ==
    /\ program = "run_tests.py"
    /\ phase = "loop"
    /\ Len(outcomes) < Len(yaml_files)
    /\ \E file \in { yaml_files[Len(outcomes) + 1] } :
       \E r \in { RT_test_file(file, result) } :
         /\ result' = r.result
         /\ outcome' = r
         /\ outcomes' = Append(outcomes, r)
         /\ data' = file.data
    /\ UNCHANGED << program, parser_vars, phase, exit_status, pass_percent,
                    total_passed, total_failed, all_failures, yaml_files >>

\* test/run.py: get_pattern_files and the totals (lines 95-98)
TestRunListFiles ==
    /\ program = "test/run.py"
    /\ phase = "start"
    /\ \E files \in FileLists : yaml_files' = files
    /\ phase' = "loop"
    /\ UNCHANGED << program, parser_vars, data, outcome, exit_status, result,
                    pass_percent, total_passed, total_failed, all_failures,
                    outcomes >>

\* test/run.py: one iteration of the loop of main (lines 100-104)
TestRunLoop ==
    /\ program = "test/run.py"
    /\ phase = "loop"
    /\ Len(outcomes) < Len(yaml_files)
    /\ \E file \in { yaml_files[Len(outcomes) + 1] } :
       \E acc \in { TR_totals([ total_passed |-> total_passed,
                                 total_failed |-> total_failed,
                                 all_failures |-> all_failures,
                                 outcomes     |-> outcomes ],
                               TR_test_file(file)) } :
         /\ total_passed' = acc.total_passed
         /\ total_failed' = acc.total_failed
         /\ all_failures' = acc.all_failures
         /\ outcomes' = acc.outcomes
         /\ outcome' = acc.outcomes[Len(acc.outcomes)]
         /\ data' = file.data
    /\ UNCHANGED << program, parser_vars, phase, exit_status, result,
                    pass_percent, yaml_files >>

\* either runner: the loop of main has no more files (run_tests.py line
\* 312, test/run.py line 100)
LoopEnd ==
    /\ phase = "loop"
    /\ Len(outcomes) = Len(yaml_files)
    /\ phase' = "tested"
    /\ UNCHANGED << program, parser_vars, data, outcome, exit_status, result,
                    pass_percent, total_passed, total_failed, all_failures,
                    yaml_files, outcomes >>

NextBatch ==
    \/ RunTestsListFiles
    \/ RunTestsLoop
    \/ TestRunListFiles
    \/ TestRunLoop
    \/ LoopEnd
    \/ RunTestsExit
    \/ TestRunExit

SpecBatch == InitRunners /\ [][NextBatch]_vars


(***************************************************************************)
(* Properties of yaml_parser.py (checked under Spec).                      *)
(***************************************************************************)
\* the line is written as a top-level key/value line
IsKeyLine(line) ==
    /\ Contains(line, ":")
    /\ ~StartsWith(line, " ")
    /\ ~StartsWith(line, "- ")

\* the key of a key/value line
KeyOf(line) == Strip(Partition(line, ":")[1])

\* the keys of the lines of the file, at any indentation
Keys(ls) ==
    { KeyOf(ls[i]) : i \in { j \in 1..Len(ls) : Contains(ls[j], ":") } }

\* some line of the file is a list item
HasItem(ls) == \E i \in 1..Len(ls) : StartsWith(Strip(ls[i]), "- ")

\* C1: parse_yaml_pattern is total.  Whatever the lines read so far, it has
\* not raised, its document holds exactly the seven fields, each of the
\* right type, and once it has returned every field that no line of the
\* input assigns (no line with that key; for the lists, no list item) still
\* has its empty default: the empty input returns the empty document.
C1_ParserTotal ==
    /\ status \in {"loop", "returned"}
    /\ DOMAIN pattern_data = FieldNames
    /\ \A f \in FieldNames \ ListFields : pattern_data[f] \in STRING
    /\ \A f \in {"malicious", "benign"} :
           \A i \in 1..Len(pattern_data[f]) : pattern_data[f][i] \in STRING
    /\ \A i \in 1..Len(pattern_data.patterns) :
           DOMAIN pattern_data.patterns[i] = {"name", "pattern", "description"}
    /\ status = "returned" =>
         LET keys == Keys(lines) IN
         /\ \A f \in {"name", "severity", "description", "pattern"} :
                f \notin keys => pattern_data[f] = ""
         /\ \A f \in ListFields :
                (f \notin keys \/ ~HasItem(lines)) => pattern_data[f] = <<>>

\* C1: a file with an unknown key, a stray list item and an indented line
\* has been parsed to the end; it assigned the pattern and nothing else
C1_Witness ==
    /\ status = "returned"
    /\ \E i, j, k \in 1..Len(lines) :
           lines[i] = "foo: z" /\ lines[j] = "- x" /\ lines[k] = " c"
    /\ pattern_data.pattern # ""
    /\ pattern_data.name = ""
    /\ pattern_data.malicious = <<>>

\* a top-level key/value line whose key is none of the seven
IsUnknownKeyLine(line) == IsKeyLine(line) /\ KeyOf(line) \notin FieldNames

\* a recognized top-level key or section header
IsKnownKeyLine(line) == IsKeyLine(line) /\ KeyOf(line) \in FieldNames

\* ls[from..] without the unknown keys and what belongs to them: the
\* indented lines and list items that follow one up to the next recognized
\* top-level key or section header; skipping holds inside such a run
RECURSIVE WithoutUnknown(_, _, _)
WithoutUnknown(ls, from, skipping) ==
    IF from > Len(ls) THEN <<>>
    ELSE LET line == ls[from] IN
         IF IsUnknownKeyLine(line)
         THEN WithoutUnknown(ls, from + 1, TRUE)
         ELSE IF IsKnownKeyLine(line)
         THEN <<line>> \o WithoutUnknown(ls, from + 1, FALSE)
         ELSE IF skipping /\ (StartsWith(line, " ")
                              \/ StartsWith(Strip(line), "- "))
         THEN WithoutUnknown(ls, from + 1, TRUE)
         ELSE <<line>> \o WithoutUnknown(ls, from + 1, skipping)

\* C2: unknown keys are ignored.  The document returned for a file equals
\* the document returned for the file without its unknown top-level keys
\* and the indented lines and list items that follow them.
C2_UnknownKeysIgnored ==
    status = "returned" =>
        pattern_data = parse_yaml_pattern(WithoutUnknown(lines, 1, FALSE))


\* an indented line that is not a list item
IsContinuationLine(line) ==
    StartsWith(line, " ") /\ ~StartsWith(Strip(line), "- ")

\* the last line of the scalar that starts at line i: the last line of the
\* file, or the one before it when the file ends with a top-level key or
\* section header
ScalarEnd(i) ==
    IF Len(lines) > i /\ IsKeyLine(lines[Len(lines)])
    THEN Len(lines) - 1 ELSE Len(lines)

\* line i is the first top-level line with this key, and what follows it
\* is one or more indented continuation lines, not all blank, up to a
\* top-level key or section header that ends the file, or to the end of the
\* file
ScalarBlockAt(i, key) ==
    /\ IsKeyLine(lines[i])
    /\ KeyOf(lines[i]) = key
    /\ \A m \in 1..(i - 1) :
           ~(Contains(lines[m], ":") /\ KeyOf(lines[m]) = key)
    /\ ScalarEnd(i) > i
    /\ \A m \in (i + 1)..ScalarEnd(i) : IsContinuationLine(lines[m])
    /\ \E m \in (i + 1)..ScalarEnd(i) : Strip(lines[m]) # ""
    /\ ScalarEnd(i) < Len(lines) => KeyOf(lines[Len(lines)]) # key

\* the trimmed non-blank lines among lines[from..to], in order
RECURSIVE Trimmed(_, _)
Trimmed(from, to) ==
    IF from > to THEN <<>>
    ELSE (IF Strip(lines[from]) = "" THEN <<>>
          ELSE << Strip(lines[from]) >>)
         \o Trimmed(from + 1, to)

\* what contributes to the scalar that starts at line i: the value on the
\* key line unless it is empty or a block indicator, then the continuation
\* lines
Contributions(i) ==
    LET value == Strip(Partition(lines[i], ":")[2])
    IN  (IF value = "" \/ value \in {"|", ">"} THEN <<>> ELSE << value >>)
        \o Trimmed(i + 1, ScalarEnd(i))

\* C15: continuation joining.  When a top-level description or pattern is
\* followed by indented continuation lines, up to a following top-level
\* key, a malicious:/benign: header or the end of the input, the parsed
\* description is the contributions joined by single spaces and trimmed,
\* and the parsed pattern is the single contribution as it is, or else the
\* contributions joined by newlines and trimmed.
C15_ContinuationJoining ==
    status = "returned" =>
        \A i \in 1..Len(lines) :
            /\ ScalarBlockAt(i, "description") =>
                   pattern_data.description
                       = Strip(Join(" ", Contributions(i)))
            /\ ScalarBlockAt(i, "pattern") =>
                   pattern_data.pattern
                       = IF Len(Contributions(i)) = 1
                         THEN Contributions(i)[1]
                         ELSE Strip(Join("\n", Contributions(i)))

\* C20: coexistence of pattern and patterns.  A file with a single-line
\* top-level `pattern: a` and a `patterns:` list with one `- name:` entry,
\* in either order, followed by a malicious: or benign: header, yields
\* pattern = a together with the sub-pattern entry.
C20_PatternAndPatterns ==
    (/\ status = "returned"
     /\ Len(lines) = 4
     /\ lines[4] \in { "malicious:", "benign:" }
     /\ SubSeq(lines, 1, 3) \in
            { << "pattern: a", "patterns:", "- name: s" >>,
              << "patterns:", "- name: s", "pattern: a" >> })
        => /\ pattern_data.pattern = "a"
           /\ pattern_data.patterns =
                  << [ name |-> "s", pattern |-> "", description |-> "" ] >>

\* the line is empty or holds white space only
IsBlankLine(line) == Strip(line) = ""

\* blank lines to insert
BlankLines == { "", " ", " \t " }

\* the lines of ls that are not blank, in order
RECURSIVE WithoutBlank(_)
WithoutBlank(ls) ==
    IF ls = <<>> THEN <<>>
    ELSE (IF IsBlankLine(Head(ls)) THEN <<>> ELSE << Head(ls) >>)
         \o WithoutBlank(Tail(ls))

\* C22: blank lines never affect parsing.  After any lines, the state of
\* the parser is the state it reaches on the same lines without the blank
\* ones, a blank line read next leaves that state as it is, and the
\* document returned is the one returned for the lines without the blank
\* ones.
C22_BlankLinesSkipped ==
    /\ status = "loop" =>
          \A b \in BlankLines : ParseLine(ParserState, b) = ParserState
    /\ (\E i \in 1..Len(lines) : IsBlankLine(lines[i])) =>
          /\ status = "loop" =>
                ParserState = ParseFrom(ParseInit, WithoutBlank(lines), 1)
          /\ status = "returned" =>
                pattern_data = parse_yaml_pattern(WithoutBlank(lines))

\* C22: a file with a blank line between a pattern and its continuation
\* line has been parsed to the end
C22_Witness ==
    /\ status = "returned"
    /\ \E i \in 2..(Len(lines) - 1) :
           /\ lines[i - 1] = "pattern: a"
           /\ IsBlankLine(lines[i])
           /\ lines[i + 1] = " c"
    /\ pattern_data.pattern = "a\nc"

\* the step reads one more line, and the line is a list item of the test
\* section the parser is in
ReadsExampleItem ==
    /\ status = "loop"
    /\ Len(lines') = Len(lines) + 1
    /\ StartsWith(Strip(lines'[Len(lines')]), "- ")
    /\ in_test_list
    /\ current_section \in {"malicious", "benign"}

\* C23: example list items are a leaf action.  A step that reads a line
\* starting, once trimmed, with `- ` while in_test_list holds and
\* current_section is malicious or benign appends exactly one string to the
\* end of the list current_section names and changes nothing else of the
\* parser; no other step changes an example list, so each list holds its
\* items in source order.
C23_ExampleItemLeaf ==
    [][ IF ReadsExampleItem
        THEN /\ Len(pattern_data'[current_section])
                    = Len(pattern_data[current_section]) + 1
             /\ SubSeq(pattern_data'[current_section], 1,
                       Len(pattern_data[current_section]))
                    = pattern_data[current_section]
             /\ pattern_data'[current_section]
                     [Len(pattern_data'[current_section])] \in STRING
             /\ \A f \in FieldNames \ {current_section} :
                    pattern_data'[f] = pattern_data[f]
             /\ DOMAIN pattern_data' = FieldNames
             /\ status' = "loop"
             /\ UNCHANGED << current_section, in_test_list, in_patterns_list,
                             multiline_value, current_pattern >>
        ELSE /\ pattern_data'.malicious = pattern_data.malicious
             /\ pattern_data'.benign = pattern_data.benign ]_vars

\* C23: two list items have been read after a pattern and a malicious:
\* header; the list holds them in source order
C23_Witness ==
    /\ status = "loop"
    /\ lines = << "pattern: a", "malicious:", "- x", "- 'y'" >>
    /\ pattern_data.malicious = << "x", "y" >>
    /\ pattern_data.pattern = "a"
    /\ current_section = "malicious"

\* line i of the file is a `- name:` line
IsNameItem(line) ==
    /\ StartsWith(Strip(line), "- ")
    /\ StartsWith(Strip(DropFirst(Strip(line), 2)), "name:")

\* the name a `- name:` line gives
NameOf(line) == Strip(DropFirst(Strip(DropFirst(Strip(line), 2)), 5))

\* the `- name:` lines of the file seen while current_section is patterns
OpenerLines ==
    { i \in 1..Len(lines) :
        /\ IsNameItem(lines[i])
        /\ ParseFrom(ParseInit, SubSeq(lines, 1, i - 1), 1).current_section
               = "patterns" }

\* the members of a set of numbers, in increasing order
RECURSIVE Ascending(_)
Ascending(S) ==
    IF S = {} THEN <<>>
    ELSE LET m == Min(S) IN << m >> \o Ascending(S \ {m})

\* the record a `- name:` line opens
Opened(line) == [ name |-> NameOf(line), pattern |-> "", description |-> "" ]

\* C24: sub-pattern record lifecycle.  Every `- name:` line seen while
\* current_section is patterns opens a record with that name and empty
\* pattern and description; the records closed so far followed by the open
\* one are, one for one and in source order, the records of those lines,
\* and the document returned holds one entry per such line in source
\* order, none lost and none twice, whatever other sections and keys lie
\* between them.
C24_RecordLifecycle ==
    LET at      == Ascending(OpenerLines)
        records == IF status = "loop" /\ current_pattern # NoPattern
                   THEN Append(pattern_data.patterns, current_pattern)
                   ELSE pattern_data.patterns
    IN  /\ Len(records) = Len(at)
        /\ \A k \in 1..Len(at) :
               /\ records[k].name = NameOf(lines[at[k]])
               /\ (at[k] = Len(lines) \/ at[k] + 1 \in OpenerLines)
                      => records[k] = Opened(lines[at[k]])
        /\ (status = "loop" /\ at # <<>>) => current_pattern # NoPattern

\* C24: a file with two `- name:` lines in its patterns list, the first
\* with a nested pattern, has been parsed to the end
C24_Witness ==
    /\ status = "returned"
    /\ Cardinality(OpenerLines) = 2
    /\ pattern_data.patterns =
           << [ name |-> "s", pattern |-> "b", description |-> "" ],
              [ name |-> "s", pattern |-> "", description |-> "" ] >>

\* C26: parser state consistency.  Right after a malicious: or benign:
\* header current_section is that name, in_test_list holds,
\* in_patterns_list does not and the accumulator is empty; and in every
\* state of the parser, current_section being malicious or benign implies
\* that in_test_list holds and in_patterns_list does not.
C26_SectionConsistency ==
    /\ (/\ status = "loop"
         /\ lines # <<>>
         /\ Strip(lines[Len(lines)]) \in {"malicious:", "benign:"})
            => /\ current_section = DropLast(Strip(lines[Len(lines)]))
               /\ in_test_list
               /\ ~in_patterns_list
               /\ multiline_value = <<>>
    /\ current_section \in {"malicious", "benign"}
            => in_test_list /\ ~in_patterns_list

\* C26: a header has been read while in_patterns_list held and a pattern
\* was pending, and an unknown key after it
C26_Witness ==
    /\ status = "loop"
    /\ lines = << "patterns:", "pattern: a", "malicious:", "foo: z" >>
    /\ current_section = "malicious"
    /\ in_test_list
    /\ ~in_patterns_list
    /\ multiline_value = <<>>

\* the fields of a document the runners read
ConsumedFields == {"pattern", "patterns", "malicious", "benign"}

\* C29: the parser of run_tests.py and the parser of yaml_parser.py are
\* equivalent on the fields the evaluator consumes.  For every file both
\* return the same pattern, the same patterns sequence and the same
\* malicious and benign lists, single-quoted list items and any order of
\* the sections included.
C29_ParsersEquivalent ==
    status = "returned" =>
        \A f \in ConsumedFields :
            pattern_data[f] = RT_parse_yaml_pattern(lines)[f]

\* a top-level line with an unrecognized key
UnknownKeyLine == "foo: z"

\* C21: the flush at the end of the input follows the rule of the flush
\* before a top-level key line.  The document returned for a file equals
\* the document returned for the file with one more top-level line, with an
\* unrecognized key, at its end; so a pending pattern is assigned at the end
\* of the input exactly when it is not inside a sub-pattern list.
C21_EndFlushAsKeyFlush ==
    status = "returned" =>
        pattern_data = parse_yaml_pattern(Append(lines, UnknownKeyLine))

(***************************************************************************)
(* Properties of yaml_parser.py on a patterns list (checked under          *)
(* SpecNested).                                                            *)
(***************************************************************************)
\* the step reads one more line, indented by two or more spaces, while
\* in_patterns_list holds and a sub-pattern record is open
ReadsNestedLine ==
    /\ status = "loop"
    /\ Len(lines') = Len(lines) + 1
    /\ StartsWith(lines'[Len(lines')], "  ")
    /\ in_patterns_list
    /\ current_pattern # NoPattern

\* C25: nested sub-pattern fields.  A step that reads a line indented by
\* two or more spaces while in_patterns_list holds and a sub-pattern record
\* is open splits the line at its first `:`; for the key pattern or
\* description the trimmed remainder replaces that field of the open
\* record and leaves its other fields; whatever the key, the step changes
\* no top-level field, no example list, no closed sub-pattern entry and not
\* the accumulator.
C25_NestedFields ==
    [][ ReadsNestedLine =>
          LET kv    == Partition(Strip(lines'[Len(lines')]), ":")
              key   == Strip(kv[1])
              value == Strip(kv[2])
          IN  /\ (/\ Contains(lines'[Len(lines')], ":")
                   /\ key \in {"pattern", "description"}) =>
                     current_pattern' = [ current_pattern EXCEPT ![key] = value ]
              /\ \A f \in {"name", "severity", "description", "pattern",
                            "malicious", "benign"} :
                     pattern_data'[f] = pattern_data[f]
              /\ Len(pattern_data'.patterns) >= Len(pattern_data.patterns)
              /\ SubSeq(pattern_data'.patterns, 1, Len(pattern_data.patterns))
                     = pattern_data.patterns
              /\ multiline_value' = multiline_value ]_vars

(***************************************************************************)
(* Properties of yaml_parser.py on list items (checked under SpecItems).   *)
(***************************************************************************)
\* the text begins and ends with the quote character q
Enclosed(t, q) == StartsWith(t, q) /\ EndsWith(t, q)

\* the example to store for a trimmed list item; the text between the
\* quotes of an item that is one quote character is empty
StoredFor(t) ==
    IF Enclosed(t, "\"")
    THEN Replace(SubSeq(t, 2, Len(t) - 1), "\\\"", "\"")
    ELSE IF Enclosed(t, "'") THEN SubSeq(t, 2, Len(t) - 1)
    ELSE t

Tested == phase # "start"

\* test_pattern has run and the document compiled
Compiled == Tested /\ outcome.error = NoError

\* the text is empty or whitespace only
IsBlank(t) == \A i \in 1..Len(t) : IsSpace(Ch(t, i))

\* the non-blank texts of a list, in order
RECURSIVE NonBlank(_)
NonBlank(ts) ==
    IF ts = <<>> THEN <<>>
    ELSE (IF IsBlank(Head(ts)) THEN <<>> ELSE <<Head(ts)>>)
         \o NonBlank(Tail(ts))

\* the number of blank texts of a list
NumBlank(ts) == Len(ts) - Len(NonBlank(ts))

\* the positions e such that the matcher m matches the slice of t from
\* position s up to, not including, position e
SpanEnds(m, t, s) == Ends(RegexBody(m.pattern), t, {s}, EffectiveFlags(m))

\* some matcher of ms matches some slice of t
Covered(ms, t) ==
    \E k \in 1..Len(ms) :
        \E s \in 1..(Len(t) + 1) :
            \E e \in SpanEnds(ms[k], t, s) : e \in s..(Len(t) + 1)

\* C3: coverage is a logical OR over the compiled matchers with substring
\* search.  For a document that compiled, each runner evaluated exactly the
\* non-blank examples, malicious then benign, and found an example covered
\* if and only if some compiled matcher matches some slice of its text.
C3_CoverageIsAny ==
    Compiled =>
        LET exs == NonBlank(data.malicious) \o NonBlank(data.benign) IN
        /\ Len(outcome.matched) = Len(exs)
        /\ \A i \in 1..Len(exs) :
               outcome.matched[i] = Covered(outcome.patterns, exs[i])

\* C3: sub-patterns [a, b] and the example "xbz": covered, although the
\* first matcher does not match it
C3_Witness ==
    /\ Compiled
    /\ Len(outcome.patterns) = 2
    /\ outcome.patterns[1].pattern = "a"
    /\ outcome.patterns[2].pattern = "b"
    /\ data.malicious = <<"xbz">>
    /\ data.benign = <<>>
    /\ outcome.matched = <<TRUE>>
    /\ ~Covered(<<outcome.patterns[1]>>, "xbz")

\* the failures to record for the examples ts of one list: one per
\* non-blank example that is not covered (kind "FALSE NEGATIVE", the
\* malicious list) or that is covered (kind "FALSE POSITIVE", the benign
\* list), in order
RECURSIVE ExpectedFailures(_, _, _)
ExpectedFailures(ms, ts, kind) ==
    IF ts = <<>> THEN <<>>
    ELSE LET t     == Head(ts)
             fails == IF kind = "FALSE NEGATIVE"
                      THEN ~Covered(ms, t) ELSE Covered(ms, t)
         IN  (IF ~IsBlank(t) /\ fails
              THEN << Failure(Stem, kind, t) >> ELSE <<>>)
             \o ExpectedFailures(ms, Tail(ts), kind)

\* C4: classification of the examples.  For a document that compiled, every
\* non-blank malicious example counts as passed if covered and otherwise as
\* failed with one FALSE NEGATIVE failure; every non-blank benign example
\* counts as passed if not covered and otherwise as failed with one FALSE
\* POSITIVE failure; the failures are recorded in order, and each non-blank
\* example adds one to exactly one of passed and failed.  (test/run.py
\* derives passed from the length of the lists, so the blank examples, which
\* C5 is about, are set apart here.)
C4_Classification ==
    Compiled =>
        LET ms  == outcome.patterns
            mal == NonBlank(data.malicious)
            ben == NonBlank(data.benign)
            fn  == ExpectedFailures(ms, data.malicious, "FALSE NEGATIVE")
            fp  == ExpectedFailures(ms, data.benign, "FALSE POSITIVE")
        IN  IF program = "run_tests.py"
            THEN /\ outcome.malicious_failed = Len(fn)
                 /\ outcome.malicious_passed = Len(mal) - Len(fn)
                 /\ outcome.benign_failed = Len(fp)
                 /\ outcome.benign_passed = Len(ben) - Len(fp)
                 /\ result.failures = fn \o fp
                 /\ result.failed_tests = Len(fn) + Len(fp)
                 /\ result.passed_tests =
                        (Len(mal) - Len(fn)) + (Len(ben) - Len(fp))
            ELSE /\ outcome.failures = fn \o fp
                 /\ outcome.failed = Len(fn) + Len(fp)
                 /\ outcome.passed
                        - (NumBlank(data.malicious) + NumBlank(data.benign))
                    = (Len(mal) - Len(fn)) + (Len(ben) - Len(fp))

\* C4: a document with a covered and an uncovered malicious example and a
\* covered benign example has been tested
C4_Witness ==
    /\ Compiled
    /\ Len(NonBlank(data.malicious)) = 2
    /\ Len(ExpectedFailures(outcome.patterns, data.malicious,
                            "FALSE NEGATIVE")) = 1
    /\ Len(ExpectedFailures(outcome.patterns, data.benign,
                            "FALSE POSITIVE")) = 1

\* C5: blank examples are excluded.  For a document that compiled, the
\* examples counted as tested (passed plus failed) are exactly the non-blank
\* ones of the two lists.
C5_BlankExcluded ==
    Compiled =>
        LET n == Len(NonBlank(data.malicious)) + Len(NonBlank(data.benign))
        IN  IF program = "run_tests.py"
            THEN /\ result.total_tests = n
                 /\ result.passed_tests + result.failed_tests = n
            ELSE total_passed + total_failed = n

\* the trimmed text starts with the directive (?i) without both starting
\* with "(?i)(" and ending with ")"
MalformedFlagScope(text) ==
    LET p == Strip(text) IN
    /\ StartsWith(p, "(?i)")
    /\ ~(StartsWith(p, "(?i)(") /\ EndsWith(p, ")"))

\* the pattern texts a document gives the compiler to compile
Selected(d) ==
    IF d.patterns # <<>>
    THEN [ k \in 1..Len(d.patterns) |-> d.patterns[k].pattern ]
    ELSE IF d.pattern # "" THEN << d.pattern >> ELSE <<>>

\* the text of a pattern as the running program hands it to re.compile
AsCompiled(text) == IF program = "test/run.py" THEN Strip(text) ELSE text

\* the running program compiles the text without an error
Compiles(text) ==
    /\ RegexValid(AsCompiled(text))
    /\ program = "test/run.py" => ~MalformedFlagScope(text)

\* C6: flag-scope rejection in test/run.py.  Compiling a document fails
\* with the Format error exactly when the first pattern the compiler cannot
\* accept is one whose trimmed text starts with (?i) without both starting
\* with "(?i)(" and ending with ")"; for a sub-pattern the error names it;
\* and a document that compiled has no such pattern among those compiled.
C6_FlagScopeRejection ==
    (program = "test/run.py" /\ Tested) =>
        LET sel == Selected(data)
            bad == { k \in 1..Len(sel) :
                       /\ MalformedFlagScope(sel[k])
                       /\ \A j \in 1..(k - 1) : Compiles(sel[j]) }
        IN  /\ (outcome.error.kind = "Format") <=> (bad # {})
            /\ \A k \in bad :
                   outcome.error.sub =
                       IF data.patterns # <<>>
                       THEN << data.patterns[k].name >> ELSE <<>>
            /\ outcome.error = NoError =>
                   \A k \in 1..Len(sel) : ~MalformedFlagScope(sel[k])

\* C6: sub-patterns "(?i)(a|b)", accepted, and "(?i)a|b", rejected with
\* the Format error that names the second sub-pattern
C6_Witness ==
    /\ program = "test/run.py"
    /\ Tested
    /\ Len(data.patterns) = 2
    /\ data.patterns[1].pattern = "(?i)(a|b)"
    /\ data.patterns[2].pattern = "(?i)a|b"
    /\ outcome.error = Error("Format", << data.patterns[2].name >>)

\* C7: compiler selection and precedence.  When the patterns list is
\* non-empty and compilation succeeds, there is one matcher per entry, in
\* entry order, compiled from that entry's pattern, and the top-level
\* pattern plays no part: compilation succeeds whenever every entry
\* compiles.  Otherwise the matchers are the single one compiled from the
\* top-level pattern.
C7_CompilerSelection ==
    Tested =>
        /\ (data.patterns # <<>> /\ outcome.error = NoError) =>
               /\ Len(outcome.patterns) = Len(data.patterns)
               /\ \A k \in 1..Len(data.patterns) :
                      outcome.patterns[k].pattern =
                          AsCompiled(data.patterns[k].pattern)
        /\ data.patterns # <<>> =>
               ((outcome.error = NoError) <=>
                    \A k \in 1..Len(data.patterns) :
                        Compiles(data.patterns[k].pattern))
        /\ (data.patterns = <<>> /\ outcome.error = NoError) =>
               /\ Len(outcome.patterns) = 1
               /\ outcome.patterns[1].pattern = AsCompiled(data.pattern)
        /\ data.patterns = <<>> =>
               ((outcome.error = NoError) <=>
                    (data.pattern # "" /\ Compiles(data.pattern)))

\* C7: a document with two sub-patterns and a top-level pattern that is not
\* a valid regex compiled to the two matchers of its sub-patterns
C7_Witness ==
    /\ Compiled
    /\ data.pattern = "("
    /\ Len(data.patterns) = 2
    /\ data.patterns[1].pattern = "b"
    /\ data.patterns[2].pattern = "a"
    /\ Len(outcome.patterns) = 2
    /\ outcome.patterns[1].pattern = "b"
    /\ outcome.patterns[2].pattern = "a"

\* C8: missing pattern.  A document with an empty top-level pattern and no
\* sub-pattern entry with a non-empty pattern text, entries that only have
\* a name included, fails with the Missing pattern error and none of its
\* examples is evaluated.
C8_MissingPattern ==
    Tested =>
        ((/\ data.pattern = ""
          /\ \A k \in 1..Len(data.patterns) : data.patterns[k].pattern = "")
            => /\ outcome.error.kind = "Missing pattern"
               /\ outcome.matched = <<>>)

\* C9: uniform matcher flags.  Every matcher a runner compiled has both the
\* case-insensitive and the dot-matches-newline flag, and no other.
C9_UniformFlags ==
    Tested =>
        \A k \in 1..Len(outcome.patterns) :
            outcome.patterns[k].flags = {IGNORECASE, DOTALL}

\* C10: no partial compilation.  When the first pattern the compiler cannot
\* accept is not a valid regular expression, compilation fails with the
\* Invalid regex error, which names the sub-pattern when the pattern is one,
\* no matcher is kept, no example is evaluated and nothing is added to the
\* tested and passed counts.
C10_NoPartialCompilation ==
    Tested =>
        LET sel == Selected(data)
            bad == { k \in 1..Len(sel) :
                       /\ ~RegexValid(AsCompiled(sel[k]))
                       /\ ~MalformedFlagScope(sel[k])
                       /\ \A j \in 1..(k - 1) : Compiles(sel[j]) }
        IN  \A k \in bad :
                /\ outcome.error.kind = "Invalid regex"
                /\ outcome.error.sub =
                       IF data.patterns # <<>>
                       THEN << data.patterns[k].name >> ELSE <<>>
                /\ outcome.patterns = <<>>
                /\ outcome.matched = <<>>
                /\ IF program = "run_tests.py"
                   THEN result.total_tests = 0 /\ result.passed_tests = 0
                   ELSE total_passed = 0


\* C12: a document is reported clean if and only if none of its tests failed
\* and at least one example was evaluated.  run_tests.py reports a document
\* clean with the value test_pattern returns; test/run.py, which reports per
\* run only, with its exit status 0 on the one file it was given.
C12_CleanIffTested ==
    phase = "exited" =>
        LET evaluated == Len(outcome.matched)
            failed    == IF program = "run_tests.py"
                         THEN outcome.malicious_failed + outcome.benign_failed
                         ELSE outcome.failed
            clean     == IF program = "run_tests.py"
                         THEN outcome.ret
                         ELSE exit_status = 0
        IN  clean <=> (failed = 0 /\ evaluated > 0)

\* C18: the success rate.  run_tests.py computes it exactly when some test
\* was counted; it is then the integer p of 0..100 with
\* p <= 100 * passed / total < p + 1, the ratio truncated, and it is 100
\* only when every test passed.
C18_SuccessRate ==
    (program = "run_tests.py" /\ phase = "exited") =>
        /\ Len(pass_percent) = (IF result.total_tests > 0 THEN 1 ELSE 0)
        /\ \A k \in 1..Len(pass_percent) :
               LET p == pass_percent[k] IN
               /\ p \in 0..100
               /\ p * result.total_tests <= 100 * result.passed_tests
               /\ 100 * result.passed_tests < (p + 1) * result.total_tests
               /\ p = 100 => result.passed_tests = result.total_tests

\* C18: two tests of three passed and the rate printed is 66
C18_Witness ==
    /\ program = "run_tests.py"
    /\ phase = "exited"
    /\ result.total_tests = 3
    /\ result.passed_tests = 2
    /\ pass_percent = << 66 >>

\* the number of parentheses opened and not closed within p[from..to]
Nesting(p, from, to) ==
    Cardinality({ i \in from..to : Ch(p, i) = "(" })
        - Cardinality({ i \in from..to : Ch(p, i) = ")" })

\* the trimmed text p starts with "(?i)(" and the parenthesis it ends with
\* is the one that closes that group
WrapsWhole(p) ==
    /\ StartsWith(p, "(?i)(")
    /\ EndsWith(p, ")")
    /\ \A e \in 5..(Len(p) - 1) : Nesting(p, 5, e) >= 1

\* C19: the flag-scope check of test/run.py rejects a pattern that begins
\* with "(?i)(" unless the parenthesis at the end of the trimmed text is
\* the one matching that opening one: when the first pattern the compiler
\* cannot accept is such a pattern, compilation fails with the Format error.
C19_MatchingParenthesis ==
    (program = "test/run.py" /\ Tested) =>
        LET sel == Selected(data) IN
        \A k \in 1..Len(sel) :
            (/\ StartsWith(Strip(sel[k]), "(?i)(")
             /\ ~WrapsWhole(Strip(sel[k]))
             /\ \A j \in 1..(k - 1) : Compiles(sel[j]))
                => outcome.error.kind = "Format"

(***************************************************************************)
(* Properties of the runners on all the rule files (checked under          *)
(* SpecBatch).                                                             *)
(***************************************************************************)
\* the loop of main is over
LoopDone == phase \in {"tested", "exited"}

\* seq without its i-th element
Without(seq, i) ==
    [ k \in 1..(Len(seq) - 1) |-> IF k < i THEN seq[k] ELSE seq[k + 1] ]

\* run_tests.py: what the file with outcome o added to the result object
\* that was prev before it
RTContribution(prev, o) ==
    [ total_tests     |-> o.result.total_tests - prev.total_tests,
      passed_tests    |-> o.result.passed_tests - prev.passed_tests,
      failed_tests    |-> o.result.failed_tests - prev.failed_tests,
      passed_patterns |-> o.result.passed_patterns - prev.passed_patterns,
      failed_patterns |-> o.result.failed_patterns - prev.failed_patterns,
      failures        |-> SubSeq(o.result.failures, Len(prev.failures) + 1,
                                 Len(o.result.failures)) ]

\* run_tests.py: what each file of a run added to the result object
RTContributions(log) ==
    [ k \in 1..Len(log) |->
        RTContribution(IF k = 1 THEN TestResult ELSE log[k - 1].result,
                       log[k]) ]

\* test/run.py: what test_pattern returned for each file of a run
TRContributions(log) ==
    [ k \in 1..Len(log) |->
        [ passed   |-> log[k].passed,
          failed   |-> log[k].failed,
          failures |-> log[k].failures ] ]

\* the totals of test/run.py before the first file
TRStart ==
    [ total_passed |-> 0, total_failed |-> 0, all_failures |-> <<>>,
      outcomes |-> <<>> ]

\* C11: document independence in a batch.  When the loop of main is over
\* every file has been evaluated, and for every file that failed to parse,
\* to compile or to pass the format check, the counts and failures each
\* other file contributed, and the tests counted in total, are those of the
\* run on the same files without the failing one.
C11_DocumentIndependence ==
    LoopDone =>
        /\ Len(outcomes) = Len(yaml_files)
        /\ \A i \in 1..Len(yaml_files) :
               outcomes[i].error # NoError =>
                   LET others == Without(yaml_files, i) IN
                   IF program = "run_tests.py"
                   THEN LET alt == RT_main_loop(others, 1, TestResult, <<>>)
                        IN  /\ RTContributions(alt.outcomes)
                                   = Without(RTContributions(outcomes), i)
                            /\ alt.result.total_tests = result.total_tests
                            /\ alt.result.passed_tests = result.passed_tests
                            /\ alt.result.failed_tests = result.failed_tests
                            /\ alt.result.failures = result.failures
                   ELSE LET alt == TR_main_loop(others, 1, TRStart)
                        IN  /\ TRContributions(alt.outcomes)
                                   = Without(TRContributions(outcomes), i)
                            /\ alt.total_passed = total_passed
                            /\ alt.total_failed = total_failed - 1

\* C11: a run on three files is over; the second file failed to compile and
\* the third, evaluated after it, has failures of its own
C11_Witness ==
    /\ LoopDone
    /\ Len(yaml_files) = 3
    /\ outcomes[1].error = NoError
    /\ outcomes[2].error.kind = "Invalid regex"
    /\ outcomes[3].error = NoError
    /\ outcomes[3].matched # <<>>
    /\ \E k \in 1..Len(outcomes[3].matched) : ~outcomes[3].matched[k]


\* the failures to record for the examples ts of one list of the file stem
\* (see ExpectedFailures)
RECURSIVE FailuresOf(_, _, _, _)
FailuresOf(stem, ms, ts, kind) ==
    IF ts = <<>> THEN <<>>
    ELSE LET t     == Head(ts)
             fails == IF kind = "FALSE NEGATIVE"
                      THEN ~Covered(ms, t) ELSE Covered(ms, t)
         IN  (IF ~IsBlank(t) /\ fails
              THEN << Failure(stem, kind, t) >> ELSE <<>>)
             \o FailuresOf(stem, ms, Tail(ts), kind)

\* the failures of the k-th file of the run: for a file that compiled, its
\* false negatives in the order of its malicious list, then its false
\* positives in the order of its benign list; for a file that did not, the
\* one message test/run.py records (run_tests.py records none)
FileFailures(k) ==
    IF outcomes[k].error = NoError
    THEN FailuresOf(yaml_files[k].stem, outcomes[k].patterns,
                    yaml_files[k].data.malicious, "FALSE NEGATIVE")
         \o FailuresOf(yaml_files[k].stem, outcomes[k].patterns,
                       yaml_files[k].data.benign, "FALSE POSITIVE")
    ELSE IF program = "run_tests.py" THEN <<>>
    ELSE << [ pattern_name |-> yaml_files[k].stem,
              kind |-> outcomes[k].error.kind, preview |-> "" ] >>

\* the failures of the first k files of the run, file after file
RECURSIVE FailuresUpTo(_)
FailuresUpTo(k) ==
    IF k = 0 THEN <<>> ELSE FailuresUpTo(k - 1) \o FileFailures(k)

\* C13: failure ordering.  At every point of a run the recorded failures
\* are, file after file in processing order, the false negatives of the file
\* in the order of its malicious list followed by its false positives in the
\* order of its benign list.
C13_FailureOrdering ==
    phase # "start" =>
        (IF program = "run_tests.py" THEN result.failures ELSE all_failures)
            = FailuresUpTo(Len(outcomes))

\* C13: run_tests.py recorded a false positive of one file, then a false
\* negative and a false positive of the next file
C13_Witness ==
    /\ program = "run_tests.py"
    /\ LoopDone
    /\ Len(result.failures) = 3
    /\ result.failures[1].kind = "FALSE POSITIVE"
    /\ result.failures[2].kind = "FALSE NEGATIVE"
    /\ result.failures[3].kind = "FALSE POSITIVE"
    /\ result.failures[1].pattern_name # result.failures[2].pattern_name
    /\ result.failures[2].pattern_name = result.failures[3].pattern_name

\* the orders the n files of a run can be processed in
Perms(n) ==
    { f \in [ 1..n -> 1..n ] : \A i, j \in 1..n : f[i] = f[j] => i = j }

\* the files in the order f
Permuted(files, f) == [ k \in 1..Len(files) |-> files[f[k]] ]

\* the summary counters of run_tests.py
RTCounters(r) ==
    [ total_tests     |-> r.total_tests,
      passed_tests    |-> r.passed_tests,
      failed_tests    |-> r.failed_tests,
      passed_patterns |-> r.passed_patterns,
      failed_patterns |-> r.failed_patterns ]

\* the sum of the counters run_tests.py has for each of the first k files
\* when it is given that file alone
RECURSIVE RTSum(_, _)
RTSum(files, k) ==
    IF k = 0
    THEN RTCounters(TestResult)
    ELSE LET rest == RTSum(files, k - 1)
             own  == RTCounters(RT_test_file(files[k], TestResult).result)
         IN  [ c \in DOMAIN own |-> rest[c] + own[c] ]

\* the sum of the counts test/run.py has for each of the first k files
RECURSIVE TRSum(_, _)
TRSum(files, k) ==
    IF k = 0
    THEN [ passed |-> 0, failed |-> 0 ]
    ELSE LET rest == TRSum(files, k - 1)
             own  == TR_test_file(files[k])
         IN  [ passed |-> rest.passed + own.passed,
               failed |-> rest.failed + own.failed ]

\* C14: order-independent aggregation.  After the loop of main the summary
\* counters equal the sum of the counts each file has on its own, and a run
\* on the same files in any other order ends with the same counters.
C14_OrderIndependent ==
    LoopDone =>
        IF program = "run_tests.py"
        THEN /\ RTCounters(result) = RTSum(yaml_files, Len(yaml_files))
             /\ \A f \in Perms(Len(yaml_files)) :
                    RTCounters(RT_main_loop(Permuted(yaml_files, f), 1,
                                            TestResult, <<>>).result)
                        = RTCounters(result)
        ELSE /\ total_passed = TRSum(yaml_files, Len(yaml_files)).passed
             /\ total_failed = TRSum(yaml_files, Len(yaml_files)).failed
             /\ \A f \in Perms(Len(yaml_files)) :
                    LET alt == TR_main_loop(Permuted(yaml_files, f), 1,
                                            TRStart)
                    IN  /\ alt.total_passed = total_passed
                        /\ alt.total_failed = total_failed

\* C14: a run on three files that all add to the counters is over
C14_Witness ==
    /\ LoopDone
    /\ Len(yaml_files) = 3
    /\ \A k \in 1..3 : outcomes[k].matched # <<>>
    /\ \E k \in 1..3 : \E i \in 1..Len(outcomes[k].matched) :
           outcomes[k].matched[i]
    /\ \E k \in 1..3 : \E i \in 1..Len(outcomes[k].matched) :
           ~outcomes[k].matched[i]

\* the sum of the numbers of a sequence
RECURSIVE SumSeq(_)
SumSeq(ns) == IF ns = <<>> THEN 0 ELSE Head(ns) + SumSeq(Tail(ns))

\* C27: counter consistency of the runners.  After any number of files,
\* run_tests.py has total_tests = passed_tests + failed_tests, as many
\* failure entries as failed_tests, for each file malicious_count =
\* malicious_passed + malicious_failed and the same for benign, and the
\* counters of the result object are the sums of the per-file counters;
\* test/run.py has as many failure entries as total_failed, for each file
\* as many failure entries as its failed count and, when the file compiles,
\* passed + failed = the number of its examples, and totals that are the
\* sums of the per-file counts.
C27_CounterConsistency ==
    /\ program = "run_tests.py" =>
          /\ result.total_tests = result.passed_tests + result.failed_tests
          /\ Len(result.failures) = result.failed_tests
          /\ \A k \in 1..Len(outcomes) :
                 /\ outcomes[k].malicious_count
                        = outcomes[k].malicious_passed
                          + outcomes[k].malicious_failed
                 /\ outcomes[k].benign_count
                        = outcomes[k].benign_passed + outcomes[k].benign_failed
          /\ result.total_tests
                 = SumSeq([ k \in 1..Len(outcomes) |->
                              outcomes[k].malicious_count
                              + outcomes[k].benign_count ])
          /\ result.passed_tests
                 = SumSeq([ k \in 1..Len(outcomes) |->
                              outcomes[k].malicious_passed
                              + outcomes[k].benign_passed ])
          /\ result.failed_tests
                 = SumSeq([ k \in 1..Len(outcomes) |->
                              outcomes[k].malicious_failed
                              + outcomes[k].benign_failed ])
    /\ program = "test/run.py" =>
          /\ Len(all_failures) = total_failed
          /\ \A k \in 1..Len(outcomes) :
                 /\ Len(outcomes[k].failures) = outcomes[k].failed
                 /\ outcomes[k].error = NoError =>
                        outcomes[k].passed + outcomes[k].failed
                            = Len(yaml_files[k].data.malicious)
                              + Len(yaml_files[k].data.benign)
          /\ total_passed
                 = SumSeq([ k \in 1..Len(outcomes) |-> outcomes[k].passed ])
          /\ total_failed
                 = SumSeq([ k \in 1..Len(outcomes) |-> outcomes[k].failed ])

\* C27: run_tests.py is done with three files, one of which does not
\* parse; five examples were tested and two of them failed
C27_Witness ==
    /\ program = "run_tests.py"
    /\ phase = "tested"
    /\ Len(outcomes) = 3
    /\ \E k \in 1..Len(outcomes) : outcomes[k].error # NoError
    /\ result.total_tests = 5
    /\ result.failed_tests = 2

\* C28: the corpus runner reports overall success only if every document
\* was parsed, compiled and clean.  When run_tests.py has exited with
\* status 0, failed_patterns = 0 and passed_patterns = total_patterns, and
\* test_pattern found no error in any file and returned True for it.
C28_SuccessMeansAllClean ==
    (/\ program = "run_tests.py"
     /\ phase = "exited"
     /\ yaml_files # <<>>
     /\ exit_status = 0)
        => /\ result.failed_patterns = 0
           /\ result.passed_patterns = result.total_patterns
           /\ \A k \in 1..Len(outcomes) :
                  outcomes[k].error = NoError /\ outcomes[k].ret

====
